---- MODULE Spec2Model ----
(***************************************************************************)
(* The api-to-cdn-sync pipeline: the fetcher (src/fetcher.js), the         *)
(* transformer (src/transformer.js), the deployer (src/deployer.js), the   *)
(* orchestrator (src/main.js), the deploy command (cloudflare/deploy.js)   *)
(* and the state they act on: the process environment, the files and       *)
(* directories, the requests handed to the HTTP layer (axios) and the      *)
(* lines written on the console.                                           *)
(*                                                                         *)
(* JavaScript values are tagged records: [t |-> "undefined"],              *)
(* [t |-> "null"], [t |-> "str", s |-> ...], [t |-> "obj", ...].          *)
(* An error message built by a template literal is the sequence of the     *)
(* literal's parts, in order: `API error (${status}): ${detail}` is        *)
(* <<"API error (", "500", "): ", "Internal server error">>.               *)
(***************************************************************************)
EXTENDS Integers, Sequences, FiniteSets, TLC

VARIABLES env, files, dirs, netCalls, batch, last, run

vars == <<env, files, dirs, netCalls, batch, last, run>>

(* ------------------------------ bounds --------------------------------- *)

\* longest list of files handed to deployMultipleFiles
MaxFiles == 2

\* longest endpoint name made of the characters of NameAlphabet
MaxNameLen == 4

\* the most requests a sequence of calls of deployToCDN hands to the HTTP layer
MaxPublishes == 2

(* --------------------------- JavaScript values -------------------------- *)

Undefined == [t |-> "undefined"]

Null == [t |-> "null"]

Str(s) == [t |-> "str", s |-> s]

\* !v for the values the code tests: undefined, null and '' are falsy
Falsy(v) == v.t \in {"undefined", "null"} \/ (v.t = "str" /\ v.s = "")

\* ${v} inside a template literal
Interp(v) ==
  CASE v.t = "undefined" -> "undefined"
    [] v.t = "null" -> "null"
    [] v.t = "str" -> v.s
    [] OTHER -> "[object Object]"

\* v.error: a property read throws a TypeError on undefined and null, and
\* gives undefined where the property is absent (a string has no .error)
CanReadProperty(v) == v.t \notin {"undefined", "null"}

ErrorField(v) == IF v.t = "obj" /\ "error" \in DOMAIN v THEN v.error ELSE Undefined

ErrorsField(v) == IF v.t = "obj" /\ "errors" \in DOMAIN v THEN v.errors ELSE Undefined

SuccessField(v) == v.t = "obj" /\ "success" \in DOMAIN v /\ v.success

TypeErrorMessage(v, prop) ==
  <<"Cannot read properties of ", Interp(v), " (reading '", prop, "')">>

\* what a call leaves behind: a returned value or a thrown Error
Return(v) == [kind |-> "return", value |-> v]

Throw(msg) == [kind |-> "throw", message |-> msg]

(* ------------------------------ fetcher -------------------------------- *)

ApiBaseUrls == {"http://mock-api:3001", "http://nonexistent-api:9999"}

ApiPaths == {"/api/account-specs", "/api/test"}

FetchConfigs == [apiBaseUrl : ApiBaseUrls, path : ApiPaths]

\* process.env.API_AUTH_TOKEN: unset, empty, or a token
TokenValues == {Undefined, Str(""), Str("test-token-123"), Str("invalid-token")}

\* bodies the upstream API sends with HTTP 200, as text
BodyTexts == {"{\"data\":[]}", "{\"data\":[1,2]}", "null", "{\"data\":[1,", "<html>"}

\* JSON.parse on those texts: the decoded value, or no value for malformed text
JsonParse(text) ==
  CASE text = "{\"data\":[]}" -> [ok |-> TRUE, value |-> [t |-> "obj", data |-> <<>>]]
    [] text = "{\"data\":[1,2]}" -> [ok |-> TRUE, value |-> [t |-> "obj", data |-> <<1, 2>>]]
    [] text = "null" -> [ok |-> TRUE, value |-> Null]
    [] OTHER -> [ok |-> FALSE]

\* axios' default transformResponse: text that parses is replaced by its
\* value, text that does not parse is handed on unchanged (silent JSON parsing)
TransformResponse(text) ==
  IF JsonParse(text).ok THEN JsonParse(text).value ELSE Str(text)

\* data of an error response: no body, body `null`, empty body, an object
\* without an error field, an object with one, and one whose error field
\* repeats the token it was sent
ErrorBodies ==
  {Undefined, Null, Str(""), [t |-> "obj"],
   [t |-> "obj", error |-> Str("Invalid token")],
   [t |-> "obj", error |-> Str("Internal server error")],
   [t |-> "obj", error |-> Str("test-token-123")]}

ErrorStatuses == {304, 400, 401, 403, 404, 500, 503}

NoResponseCauses == {"Network Error", "timeout of 10000ms exceeded", "getaddrinfo ENOTFOUND nonexistent-api"}

\* what `await axios.get(url, ...)` can do: resolve with a 2xx response, or
\* reject with an error that has a response (status outside 2xx) or has none
GetOutcomes ==
  {[settled |-> "resolve", status |-> 200, body |-> b, data |-> TransformResponse(b)]
     : b \in BodyTexts}
  \cup {[settled |-> "reject", hasResponse |-> TRUE, status |-> s, data |-> d,
         message |-> <<"Request failed with status code ", ToString(s)>>]
        : s \in ErrorStatuses, d \in ErrorBodies}
  \cup {[settled |-> "reject", hasResponse |-> FALSE, message |-> <<m>>] : m \in NoResponseCauses}

GetRequest(url, token) ==
  [method |-> "GET", url |-> url, authorization |-> "Bearer " \o Interp(token)]

\* FetchCatch with the second test written `>= 500`
FetchCatchFrom500(error) ==
  IF error.hasResponse /\ error.status = 401
  THEN IF CanReadProperty(error.data)
       THEN Throw(<<"Authentication failed: ", Interp(ErrorField(error.data))>>)
       ELSE Throw(TypeErrorMessage(error.data, "error"))
  ELSE IF error.hasResponse /\ error.status >= 500
  THEN Throw(<<"API error (", ToString(error.status), "): ">>
             \o (IF error.data.t \notin {"undefined", "null"} /\ ~Falsy(ErrorField(error.data))
                 THEN <<Interp(ErrorField(error.data))>>
                 ELSE error.message))
  ELSE Throw(<<"Network error: ">> \o error.message)

\* FetchCatch with a last throw that leaves the cause out
FetchCatchNoCause(error) ==
  IF error.hasResponse /\ error.status = 401
  THEN IF CanReadProperty(error.data)
       THEN Throw(<<"Authentication failed: ", Interp(ErrorField(error.data))>>)
       ELSE Throw(TypeErrorMessage(error.data, "error"))
  ELSE IF error.hasResponse /\ error.status >= 400
  THEN Throw(<<"API error (", ToString(error.status), "): ">>
             \o (IF error.data.t \notin {"undefined", "null"} /\ ~Falsy(ErrorField(error.data))
                 THEN <<Interp(ErrorField(error.data))>>
                 ELSE error.message))
  ELSE Throw(<<"Network error: ", "request failed">>)

\* the catch block of fetchApiData
FetchCatch(error) ==
  IF error.hasResponse /\ error.status = 401
  THEN IF CanReadProperty(error.data)
       THEN Throw(<<"Authentication failed: ", Interp(ErrorField(error.data))>>)
       ELSE Throw(TypeErrorMessage(error.data, "error"))
  ELSE IF error.hasResponse /\ error.status >= 400
  THEN Throw(<<"API error (", ToString(error.status), "): ">>
             \o (IF error.data.t \notin {"undefined", "null"} /\ ~Falsy(ErrorField(error.data))
                 THEN <<Interp(ErrorField(error.data))>>
                 ELSE error.message))
  ELSE Throw(<<"Network error: ">> \o error.message)

\* fetchApiData with the token test moved behind the request
FetchApiDataUngated(config, authToken, outcome) ==
  LET url == config.apiBaseUrl \o config.path IN
  [outcome |-> IF Falsy(authToken)
               THEN Throw(<<"API_AUTH_TOKEN environment variable is required">>)
               ELSE IF outcome.settled = "resolve"
               THEN Return(outcome.data)
               ELSE Throw(<<"Network error: ">> \o outcome.message),
   calls |-> <<[request |-> [method |-> "GET", url |-> url,
                             authorization |-> "Bearer " \o Interp(authToken)],
                response |-> outcome]>>]

\* fetchApiData that asks a second time when its request is rejected
FetchApiDataRetrying(config, authToken, outcome) ==
  LET url == config.apiBaseUrl \o config.path
      call == [request |-> GetRequest(url, authToken), response |-> outcome]
  IN IF Falsy(authToken)
     THEN [outcome |-> Throw(<<"API_AUTH_TOKEN environment variable is required">>),
           calls |-> <<>>]
     ELSE [outcome |-> IF outcome.settled = "resolve"
                       THEN Return(outcome.data)
                       ELSE FetchCatch(outcome),
           calls |-> IF outcome.settled = "resolve" THEN <<call>> ELSE <<call, call>>]

\* fetchApiData(config) with API_AUTH_TOKEN = authToken, where the HTTP layer
\* answers `outcome` if it is asked: the call's outcome and the exchanges
\* (request and answer) it had with the HTTP layer
FetchApiData(config, authToken, outcome) ==
  LET url == config.apiBaseUrl \o config.path IN
  IF Falsy(authToken)
  THEN [outcome |-> Throw(<<"API_AUTH_TOKEN environment variable is required">>),
        calls |-> <<>>]
  ELSE [outcome |-> IF outcome.settled = "resolve"
                    THEN Return(outcome.data)
                    ELSE FetchCatch(outcome),
        calls |-> <<[request |-> GetRequest(url, authToken), response |-> outcome]>>]

\* fetchApiData that also logs the headers of its request
FetchLogsWithHeaders(config, authToken, outcome) ==
  LET request == GetRequest(config.apiBaseUrl \o config.path, authToken) IN
  IF Falsy(authToken) THEN <<>>
  ELSE <<<<"Fetching data from: ", request.url, " with ", request.authorization>>>>
       \o (IF outcome.settled = "resolve"
           THEN <<<<"Successfully fetched data (", ToString(outcome.status), ")">>>>
           ELSE <<>>)

\* the lines fetchApiData writes on the console, each one the pieces of its
\* template literal: the URL before the request, the status after a 2xx
\* answer. (In all log lines of this module the pictograph that opens the line
\* in the source is left out.)
FetchLogs(config, authToken, outcome) ==
  LET request == GetRequest(config.apiBaseUrl \o config.path, authToken) IN
  IF Falsy(authToken) THEN <<>>
  ELSE <<<<"Fetching data from: ", request.url>>>>
       \o (IF outcome.settled = "resolve"
           THEN <<<<"Successfully fetched data (", ToString(outcome.status), ")">>>>
           ELSE <<>>)

(* ------------------------------ deployer ------------------------------- *)

FullConfig ==
  [apiToken |-> Str("test-token"), zoneId |-> Str("test-zone"),
   accountId |-> Str("test-account"), namespaceId |-> Str("test-namespace"),
   cdnDomain |-> Str("test-cdn.com")]

ConfigFields == {"apiToken", "zoneId", "accountId", "namespaceId", "cdnDomain"}

\* the complete configuration, the complete one less one field, the complete
\* one with an empty token, and the test's { apiToken: 'test-token' }
CdnConfigs ==
  {FullConfig}
  \cup {[FullConfig EXCEPT ![f] = Undefined] : f \in ConfigFields}
  \cup {[FullConfig EXCEPT !.apiToken = Str("")]}
  \cup {[f \in ConfigFields |-> IF f = "apiToken" THEN Str("test-token") ELSE Undefined]}

OutputPaths == {"output/account-specs.js", "output/other.js"}

FileNames == {"account-specs.js", "other.js"}

\* the text of a file: an ASCII one, and one with a character outside ASCII
FileContents == {"export const a = 1;", "export const accountSpecs = [\"é\"];"}

\* the number of bytes of a text in UTF-8, the encoding the file is read in
\* and the request body is sent in: 'é' is one character and two bytes
Utf8Length(text) ==
  IF text = "export const accountSpecs = [\"é\"];" THEN Len(text) + 1 ELSE Len(text)

\* the {filePath, fileName} records deployOutputFiles builds
FileRecords ==
  {[filePath |-> "output/account-specs.js", fileName |-> "account-specs.js"],
   [filePath |-> "output/other.js", fileName |-> "other.js"]}

\* the errors array of a Cloudflare response
ErrorLists ==
  {<<>>,
   <<[code |-> 10014, message |-> "namespace not found"],
     [code |-> 10021, message |-> "invalid key"]>>}

RECURSIVE JoinErrors(_)
JoinErrors(items) ==
  IF items = <<>> THEN ""
  ELSE "{\"code\":" \o ToString(items[1].code) \o ",\"message\":\""
       \o items[1].message \o "\"}"
       \o (IF Len(items) > 1 THEN "," ELSE "") \o JoinErrors(Tail(items))

\* JSON.stringify(v) for undefined and for an errors array; JSON.stringify
\* gives undefined for undefined, which the template literal then prints
JsonStringify(v) ==
  IF v.t = "arr" THEN "[" \o JoinErrors(v.items) \o "]" ELSE Interp(v)

Arr(items) == [t |-> "arr", items |-> items]

\* response.data of the CDN write API
CdnBodies ==
  {Undefined, Str(""), [t |-> "obj", success |-> TRUE], [t |-> "obj", success |-> FALSE]}
  \cup {[t |-> "obj", success |-> FALSE, errors |-> Arr(e)] : e \in ErrorLists}

CdnErrorStatuses == {400, 401, 403, 500}

PutNoResponseCauses == {"Network timeout", "Upload failed"}

\* what `await axios.put(url, content, ...)` can do
PutOutcomes ==
  {[settled |-> "resolve", status |-> 200, data |-> d] : d \in CdnBodies}
  \cup {[settled |-> "reject", hasResponse |-> TRUE, status |-> s, data |-> d,
         message |-> <<"Request failed with status code ", ToString(s)>>]
        : s \in CdnErrorStatuses, d \in CdnBodies \ {[t |-> "obj", success |-> TRUE]}}
  \cup {[settled |-> "reject", hasResponse |-> FALSE, message |-> <<m>>]
        : m \in PutNoResponseCauses}

PutRequest(config, key, content) ==
  [method |-> "PUT",
   url |-> "https://api.cloudflare.com/client/v4/accounts/" \o Interp(config.accountId)
           \o "/storage/kv/namespaces/" \o Interp(config.namespaceId)
           \o "/values/" \o key,
   authorization |-> "Bearer " \o Interp(config.apiToken),
   contentType |-> "application/javascript",
   body |-> content]

\* the try block of uploadToKV on a resolved response: a value returned, or
\* an Error thrown inside the try (an error without a response)
UploadTry(response, key, content) ==
  IF ~CanReadProperty(response.data)
  THEN [settled |-> "reject", hasResponse |-> FALSE,
        message |-> TypeErrorMessage(response.data, "success")]
  ELSE IF SuccessField(response.data)
  THEN [settled |-> "resolve",
        value |-> [success |-> TRUE, key |-> key, size |-> Len(content)]]
  ELSE [settled |-> "reject", hasResponse |-> FALSE,
        message |-> <<"KV upload failed: ", JsonStringify(ErrorsField(response.data))>>]

\* UploadCatch with the errors-list test ahead of the 401 and 403 tests
UploadCatchErrorsFirst(error) ==
  IF error.hasResponse /\ ~Falsy(ErrorsField(error.data))
  THEN Throw(<<"Cloudflare API error: ", JsonStringify(ErrorsField(error.data))>>)
  ELSE IF error.hasResponse /\ error.status = 401
  THEN Throw(<<"Cloudflare authentication failed - check API token">>)
  ELSE IF error.hasResponse /\ error.status = 403
  THEN Throw(<<"Cloudflare access denied - check account permissions">>)
  ELSE Throw(<<"Network error: ">> \o error.message)

\* the catch block of uploadToKV; it also catches what the try block throws
UploadCatch(error) ==
  IF error.hasResponse /\ error.status = 401
  THEN Throw(<<"Cloudflare authentication failed - check API token">>)
  ELSE IF error.hasResponse /\ error.status = 403
  THEN Throw(<<"Cloudflare access denied - check account permissions">>)
  ELSE IF error.hasResponse /\ ~Falsy(ErrorsField(error.data))
  THEN Throw(<<"Cloudflare API error: ", JsonStringify(ErrorsField(error.data))>>)
  ELSE Throw(<<"Network error: ">> \o error.message)

\* uploadToKV that sends the request again when the first try is not accepted
UploadToKVRetrying(config, key, content, outcome) ==
  LET tried == IF outcome.settled = "resolve"
               THEN UploadTry(outcome, key, content)
               ELSE outcome
      call == [request |-> PutRequest(config, key, content), response |-> outcome]
  IN [outcome |-> IF tried.settled = "resolve"
                  THEN Return(tried.value)
                  ELSE UploadCatch(tried),
      calls |-> IF tried.settled = "resolve" THEN <<call>> ELSE <<call, call>>]

\* uploadToKV(config, key, content) where the HTTP layer answers `outcome`
UploadToKV(config, key, content, outcome) ==
  LET tried == IF outcome.settled = "resolve"
               THEN UploadTry(outcome, key, content)
               ELSE outcome
  IN [outcome |-> IF tried.settled = "resolve"
                  THEN Return(tried.value)
                  ELSE UploadCatch(tried),
      calls |-> <<[request |-> PutRequest(config, key, content), response |-> outcome]>>]

\* the configuration check of deployToCDN
ConfigMissing(config) ==
  Falsy(config.apiToken) \/ Falsy(config.zoneId) \/ Falsy(config.accountId)

\* fs.existsSync(filePath)
ExistsSync(fs, filePath) == filePath \in DOMAIN fs

\* deployToCDN with the file test moved inside its try block
DeployToCDNFileTestInTry(config, filePath, fileName, fs, outcome) ==
  IF ConfigMissing(config)
  THEN [outcome |-> Throw(<<"Missing required Cloudflare configuration: apiToken, zoneId, accountId">>),
        calls |-> <<>>]
  ELSE IF ~ExistsSync(fs, filePath)
  THEN [outcome |-> Throw(<<"CDN deployment failed: ", "File not found: ", filePath>>),
        calls |-> <<>>]
  ELSE LET fileContent == fs[filePath]
           kv == UploadToKV(config, fileName, fileContent, outcome)
       IN [outcome |-> IF kv.outcome.kind = "return"
                       THEN Return([success |-> TRUE,
                                    fileName |-> fileName,
                                    size |-> Len(fileContent),
                                    url |-> "https://" \o Interp(config.cdnDomain)
                                            \o "/" \o fileName,
                                    kvResult |-> kv.outcome.value])
                       ELSE Throw(<<"CDN deployment failed: ">> \o kv.outcome.message),
           calls |-> kv.calls]

\* deployToCDN(config, filePath, fileName) on the filesystem fs
DeployToCDN(config, filePath, fileName, fs, outcome) ==
  IF ConfigMissing(config)
  THEN [outcome |-> Throw(<<"Missing required Cloudflare configuration: apiToken, zoneId, accountId">>),
        calls |-> <<>>]
  ELSE IF ~ExistsSync(fs, filePath)
  THEN [outcome |-> Throw(<<"File not found: ", filePath>>), calls |-> <<>>]
  ELSE LET fileContent == fs[filePath]
           kv == UploadToKV(config, fileName, fileContent, outcome)
       IN [outcome |-> IF kv.outcome.kind = "return"
                       THEN Return([success |-> TRUE,
                                    fileName |-> fileName,
                                    size |-> Len(fileContent),
                                    url |-> "https://" \o Interp(config.cdnDomain)
                                            \o "/" \o fileName,
                                    kvResult |-> kv.outcome.value])
                       ELSE Throw(<<"CDN deployment failed: ">> \o kv.outcome.message),
           calls |-> kv.calls]

\* the lines deployToCDN writes on the console: the file name at the start,
\* then the success line, or the message of the error its catch block got
DeployLogs(config, filePath, fileName, fs, outcome) ==
  <<<<"Deploying ", fileName, " to Cloudflare CDN...">>>>
  \o (IF ConfigMissing(config) \/ ~ExistsSync(fs, filePath) THEN <<>>
      ELSE LET kv == UploadToKV(config, fileName, fs[filePath], outcome) IN
           IF kv.outcome.kind = "return"
           THEN <<<<"Successfully deployed ", fileName, " to CDN">>>>
           ELSE <<<<"Failed to deploy ", fileName, ":", " ">> \o kv.outcome.message>>)

\* deployToCDN hands a request to the HTTP layer only past its two checks
ReachesUpload(config, filePath, fs) ==
  ~ConfigMissing(config) /\ ExistsSync(fs, filePath)

\* the answers of the HTTP layer tried on each file of a batch: accepted,
\* rejected in the response body, rejected with 401, no response
BatchPutOutcomes ==
  {[settled |-> "resolve", status |-> 200, data |-> [t |-> "obj", success |-> TRUE]],
   [settled |-> "resolve", status |-> 200,
    data |-> [t |-> "obj", success |-> FALSE,
              errors |-> Arr(<<[code |-> 10014, message |-> "namespace not found"],
                               [code |-> 10021, message |-> "invalid key"]>>)]],
   [settled |-> "reject", hasResponse |-> TRUE, status |-> 401, data |-> Undefined,
    message |-> <<"Request failed with status code ", "401">>],
   [settled |-> "reject", hasResponse |-> FALSE, message |-> <<"Upload failed">>]}

\* the lists of files a batch is called with
FileLists == UNION {[1..n -> FileRecords] : n \in 0..MaxFiles}

\* the locals of deployMultipleFiles before its loop; i is the index of the
\* file the loop takes next
BatchLocals(config, fileList) ==
  [active |-> TRUE, config |-> config, files |-> fileList, i |-> 1,
   results |-> <<>>, successCount |-> 0, failureCount |-> 0]

\* LoopDone for a loop whose catch block ends in `break`
LoopDoneOrFailed(b) == b.i > Len(b.files) \/ b.failureCount > 0

\* the loop `for (const file of files)` is over
LoopDone(b) == b.i > Len(b.files)

\* one iteration of the loop of deployMultipleFiles: the try and its catch
LoopBody(b, fs, outcome) ==
  LET file == b.files[b.i]
      r == DeployToCDN(b.config, file.filePath, file.fileName, fs, outcome)
  IN [locals |->
        IF r.outcome.kind = "return"
        THEN [b EXCEPT !.i = @ + 1,
                       !.results = Append(@, r.outcome.value),
                       !.successCount = @ + 1]
        ELSE [b EXCEPT !.i = @ + 1,
                       !.results = Append(@, [success |-> FALSE,
                                              fileName |-> file.fileName,
                                              error |-> r.outcome.message]),
                       !.failureCount = @ + 1],
      calls |-> r.calls]

\* the value deployMultipleFiles would return with its success flag set when
\* some file was deployed
BatchResultAnySuccess(b) ==
  [success |-> b.successCount > 0,
   total |-> Len(b.files),
   successful |-> b.successCount,
   failed |-> b.failureCount,
   results |-> b.results]

\* the value deployMultipleFiles returns
BatchResult(b) ==
  [success |-> b.failureCount = 0,
   total |-> Len(b.files),
   successful |-> b.successCount,
   failed |-> b.failureCount,
   results |-> b.results]

\* the configurations deployToCDN is called with, one call after the other:
\* the complete one, one for another namespace, one without a token
PublishConfigs ==
  {FullConfig, [FullConfig EXCEPT !.namespaceId = Str("other-namespace")],
   [FullConfig EXCEPT !.apiToken = Undefined]}

(* ----------------------------- transformer ----------------------------- *)

\* A name is the sequence of its characters; a text is the sequence of the
\* pieces a template literal puts one after the other.

LowercaseLetters == <<"a", "b", "c", "d", "e", "f", "g", "h", "i", "j", "k", "l", "m", "n", "o", "p", "q", "r", "s", "t", "u", "v", "w", "x", "y", "z">>

UppercaseLetters == <<"A", "B", "C", "D", "E", "F", "G", "H", "I", "J", "K", "L", "M", "N", "O", "P", "Q", "R", "S", "T", "U", "V", "W", "X", "Y", "Z">>

IsLower(c) == \E i \in 1..26 : LowercaseLetters[i] = c

IsUpper(c) == \E i \in 1..26 : UppercaseLetters[i] = c

IsDigit(c) == c \in {"0", "1", "2", "3", "4", "5", "6", "7", "8", "9"}

\* letter.toUpperCase()
ToUpperCase(c) ==
  IF IsLower(c) THEN UppercaseLetters[CHOOSE i \in 1..26 : LowercaseLetters[i] = c] ELSE c

\* str.replace(/-([a-z])/g, (_, letter) => letter.toUpperCase()): the matches
\* are taken from left to right and do not overlap
RECURSIVE ToCamelCase(_)
ToCamelCase(str) ==
  IF str = <<>> THEN <<>>
  ELSE IF str[1] = "-" /\ Len(str) >= 2 /\ IsLower(str[2])
  THEN <<ToUpperCase(str[2])>> \o ToCamelCase(SubSeq(str, 3, Len(str)))
  ELSE <<str[1]>> \o ToCamelCase(Tail(str))

\* the characters endpoint names are made of here: a lower-case letter, an
\* upper-case letter, a digit and the hyphen
NameAlphabet == {"a", "B", "1", "-"}

\* the endpoint names of the tests and of the documentation, and 'metadata'
SampleNames ==
  {<<"a", "c", "c", "o", "u", "n", "t", "-", "s", "p", "e", "c", "s">>,
   <<"t", "r", "a", "d", "i", "n", "g", "-", "i", "n", "s", "t", "r", "u", "m", "e", "n", "t", "s">>,
   <<"s", "i", "n", "g", "l", "e">>,
   <<"m", "e", "t", "a", "d", "a", "t", "a">>}

EndpointNames ==
  SampleNames \cup UNION {[1..n -> NameAlphabet] : n \in 0..MaxNameLen}

\* JSON values: null, booleans, numbers, strings, arrays, and objects as the
\* list of their members in insertion order
JNum(n) == [t |-> "num", n |-> n]

JBool(b) == [t |-> "bool", b |-> b]

Obj(members) == [t |-> "obj", members |-> members]

Member(key, value) == [key |-> key, value |-> value]

\* the strings and numbers that occur in the data
JsonStringPool ==
  {"", "Standard", "Swap-Free", "a;b", "say \"hi\"", "data", "display_name", "max_leverage",
   "b", "a"}

JsonNumberPool == {0, 1, 2, 500}

\* the data handed to transformToJS: null, the empty array and object, scalars,
\* the shapes of the tests, the account specifications of the mock API, an
\* object whose keys are not in alphabetical order, nested arrays
AccountSpec(name) ==
  Obj(<<Member("display_name", Str(name)), Member("max_leverage", JNum(500))>>)

JsonData ==
  {Null, Arr(<<>>), Obj(<<>>), JNum(0), JBool(TRUE), Str("a;b"), Str(""), Str("say \"hi\""),
   Obj(<<Member("data", Arr(<<>>))>>),
   Obj(<<Member("data", Arr(<<AccountSpec("Standard"), AccountSpec("Swap-Free")>>))>>),
   Obj(<<Member("b", JNum(1)), Member("a", JNum(2))>>),
   Arr(<<Arr(<<>>), Null, Arr(<<JNum(1), JNum(2)>>)>>)}

\* the indentation JSON.stringify(value, null, 2) puts at depth d
RECURSIVE Indent(_)
Indent(d) == IF d = 0 THEN "" ELSE "  " \o Indent(d - 1)

\* a string as JSON text: between quotes, a quote inside it escaped
Quote(str) ==
  CASE str = "say \"hi\"" -> "\"say \\\"hi\\\"\""
    [] str = "{\"data\":[1," -> "\"{\\\"data\\\":[1,\""
    [] OTHER -> "\"" \o str \o "\""

\* JSON.stringify(value, null, 2), as the sequence of its tokens; white space
\* (line breaks and indentation) are tokens too
RECURSIVE Stringify(_, _)
RECURSIVE StringifyItems(_, _, _)
RECURSIVE StringifyMembers(_, _, _)
Stringify(v, depth) ==
  CASE v.t = "null" -> <<"null">>
    [] v.t = "bool" -> <<IF v.b THEN "true" ELSE "false">>
    [] v.t = "num" -> <<ToString(v.n)>>
    [] v.t = "str" -> <<Quote(v.s)>>
    [] v.t = "arr" ->
         IF v.items = <<>> THEN <<"[]">>
         ELSE <<"[", "\n">> \o StringifyItems(v.items, 1, depth + 1)
              \o <<"\n", Indent(depth), "]">>
    [] v.t = "obj" ->
         IF v.members = <<>> THEN <<"{}">>
         ELSE <<"{", "\n">> \o StringifyMembers(v.members, 1, depth + 1)
              \o <<"\n", Indent(depth), "}">>

StringifyItems(items, i, depth) ==
  <<Indent(depth)>> \o Stringify(items[i], depth)
  \o (IF i = Len(items) THEN <<>>
      ELSE <<",", "\n">> \o StringifyItems(items, i + 1, depth))

StringifyMembers(members, i, depth) ==
  <<Indent(depth), Quote(members[i].key), ": ">> \o Stringify(members[i].value, depth)
  \o (IF i = Len(members) THEN <<>>
      ELSE <<",", "\n">> \o StringifyMembers(members, i + 1, depth))

Timestamps == {"2025-01-10T00:00:00.000Z", "2025-06-17T12:30:45.123Z"}

MetadataName == <<"m", "e", "t", "a", "d", "a", "t", "a">>

\* transformToJS that writes `data || []` in place of data
TransformToJSOrEmpty(data, config, timestamp) ==
  LET varName == ToCamelCase(config.name) IN
  <<"// Generated on ", timestamp, "\n", "// Source: ">> \o config.name
  \o <<"\n", "\n", "export const ">> \o varName \o <<" = ">>
  \o Stringify(IF data.t \in {"null", "num", "bool"} THEN Arr(<<>>) ELSE data, 0)
  \o <<";", "\n", "\n", "export const ">> \o MetadataName \o <<" = ", "{", "\n",
       "  timestamp: \"", timestamp, "\",", "\n",
       "  source: \"">> \o config.name \o <<"\",", "\n",
       "  generator: \"", "api-to-cdn-sync", "\",", "\n",
       "  version: \"", "1.0.0", "\"", "\n",
       "}", ";", "\n", "\n",
       "// Usage example:", "\n",
       "// import { ">> \o varName
  \o <<", metadata } from './account-specifications.js';", "\n",
       "// console.log('Data generated:', metadata.timestamp);", "\n">>

\* transformToJS(data, config) where new Date().toISOString() gives timestamp:
\* the pieces of the template literal, names character by character
TransformToJS(data, config, timestamp) ==
  LET varName == ToCamelCase(config.name) IN
  <<"// Generated on ", timestamp, "\n", "// Source: ">> \o config.name
  \o <<"\n", "\n", "export const ">> \o varName \o <<" = ">>
  \o Stringify(data, 0)
  \o <<";", "\n", "\n", "export const ">> \o MetadataName \o <<" = ", "{", "\n",
       "  timestamp: \"", timestamp, "\",", "\n",
       "  source: \"">> \o config.name \o <<"\",", "\n",
       "  generator: \"", "api-to-cdn-sync", "\",", "\n",
       "  version: \"", "1.0.0", "\"", "\n",
       "}", ";", "\n", "\n",
       "// Usage example:", "\n",
       "// import { ">> \o varName
  \o <<", metadata } from './account-specifications.js';", "\n",
       "// console.log('Data generated:', metadata.timestamp);", "\n">>

\* the readings of the clock by successive `new Date()`: time does not go back
Clocks ==
  {clock \in [1..2 -> Timestamps] :
     clock # <<"2025-06-17T12:30:45.123Z", "2025-01-10T00:00:00.000Z">>}

\* transformToJS that reads the clock again for the metadata block
TransformToJSTwoReadings(data, config, clock) ==
  LET text == TransformToJS(data, config, clock[1]) IN
  [i \in DOMAIN text |->
     IF i > 1 /\ text[i] = clock[1] /\ text[i - 1] = "  timestamp: \""
     THEN clock[2] ELSE text[i]]

\* transformToJS(data, config) under a clock: `const timestamp = new
\* Date().toISOString()` reads it once, and both places use that constant
TransformToJSAt(data, config, clock) == TransformToJS(data, config, clock[1])

(* ------------------------------ saveToFile ------------------------------ *)

\* the paths saveToFile is given: the files of the output directory, the
\* output directory itself, and a file three directories down
PersistPaths == OutputPaths \cup {"output", "output/archive/2025/account-specs.js"}

\* path.dirname(p) for the paths above and their directories
Dirname(p) ==
  CASE p \in OutputPaths -> "output"
    [] p = "output/archive/2025/account-specs.js" -> "output/archive/2025"
    [] p = "output/archive/2025" -> "output/archive"
    [] p = "output/archive" -> "output"
    [] OTHER -> "."

\* a directory and the directories above it, up to the working directory
RECURSIVE Ancestors(_)
Ancestors(dir) == IF dir = "." THEN {"."} ELSE {dir} \cup Ancestors(Dirname(dir))

\* fs.existsSync(p) where p may be a directory
PathExists(fs, ds, p) == ExistsSync(fs, p) \/ p \in ds

\* fs.mkdirSync(dir, { recursive: true }): every missing directory of the
\* path is made; a file in the place of one of them is ENOTDIR
MkdirSyncRecursive(fs, ds, dir) ==
  IF \E a \in Ancestors(dir) : ExistsSync(fs, a)
  THEN [outcome |-> Throw(<<"ENOTDIR: not a directory, mkdir '", dir, "'">>), dirs |-> ds]
  ELSE [outcome |-> Return(Undefined), dirs |-> ds \cup Ancestors(dir)]

\* fs.mkdirSync(dir): the directory above must exist
MkdirSyncPlain(fs, ds, dir) ==
  IF ExistsSync(fs, Dirname(dir))
  THEN [outcome |-> Throw(<<"ENOTDIR: not a directory, mkdir '", dir, "'">>), dirs |-> ds]
  ELSE IF Dirname(dir) \notin ds
  THEN [outcome |-> Throw(<<"ENOENT: no such file or directory, mkdir '", dir, "'">>),
        dirs |-> ds]
  ELSE [outcome |-> Return(Undefined), dirs |-> ds \cup {dir}]

\* fs.writeFileSync(p, content, 'utf8'): the file is opened with flag 'w',
\* made if absent and truncated if present, and content is written
WriteFileSync(fs, ds, p, content) ==
  IF p \in ds
  THEN [outcome |-> Throw(<<"EISDIR: illegal operation on a directory, open '", p, "'">>),
        files |-> fs]
  ELSE IF ExistsSync(fs, Dirname(p))
  THEN [outcome |-> Throw(<<"ENOTDIR: not a directory, open '", p, "'">>), files |-> fs]
  ELSE IF Dirname(p) \notin ds
  THEN [outcome |-> Throw(<<"ENOENT: no such file or directory, open '", p, "'">>),
        files |-> fs]
  ELSE [outcome |-> Return(Undefined),
        files |-> [q \in DOMAIN fs \cup {p} |-> IF q = p THEN content ELSE fs[q]]]

\* fs.writeFileSync with flag 'a': content is added to what the file holds
WriteFileSyncAppend(fs, ds, p, content) ==
  LET w == WriteFileSync(fs, ds, p, content) IN
  IF w.outcome.kind = "return" /\ ExistsSync(fs, p)
  THEN [outcome |-> w.outcome, files |-> [w.files EXCEPT ![p] = fs[p] \o content]]
  ELSE w

\* saveToFile that makes the directory without { recursive: true }
SaveToFileMkdirPlain(content, outputPath, fs, ds) ==
  LET dir == Dirname(outputPath)
      made == IF ~PathExists(fs, ds, dir)
              THEN MkdirSyncPlain(fs, ds, dir)
              ELSE [outcome |-> Return(Undefined), dirs |-> ds]
  IN IF made.outcome.kind = "throw"
     THEN [outcome |-> made.outcome, files |-> fs, dirs |-> ds]
     ELSE LET w == WriteFileSync(fs, made.dirs, outputPath, content) IN
          [outcome |-> w.outcome, files |-> w.files, dirs |-> made.dirs]

\* saveToFile that opens the file for appending
SaveToFileAppend(content, outputPath, fs, ds) ==
  LET dir == Dirname(outputPath)
      made == IF ~PathExists(fs, ds, dir)
              THEN MkdirSyncRecursive(fs, ds, dir)
              ELSE [outcome |-> Return(Undefined), dirs |-> ds]
  IN IF made.outcome.kind = "throw"
     THEN [outcome |-> made.outcome, files |-> fs, dirs |-> ds]
     ELSE LET w == WriteFileSyncAppend(fs, made.dirs, outputPath, content) IN
          [outcome |-> w.outcome, files |-> w.files, dirs |-> made.dirs]

\* saveToFile(content, outputPath): the outcome and the file system it leaves
SaveToFile(content, outputPath, fs, ds) ==
  LET dir == Dirname(outputPath)
      made == IF ~PathExists(fs, ds, dir)
              THEN MkdirSyncRecursive(fs, ds, dir)
              ELSE [outcome |-> Return(Undefined), dirs |-> ds]
  IN IF made.outcome.kind = "throw"
     THEN [outcome |-> made.outcome, files |-> fs, dirs |-> ds]
     ELSE LET w == WriteFileSync(fs, made.dirs, outputPath, content) IN
          [outcome |-> w.outcome, files |-> w.files, dirs |-> made.dirs]

\* the pieces fs.writeFileSync hands to the operating system when a write
\* takes less than the whole text: writeSync is called until all is written
Chunks(content) ==
  IF content = "export const a = 1;"
  THEN <<"export const ", "a = 1;">>
  ELSE <<"export const accountSpecs", " = [\"é\"];">>

\* saveToFile up to the opening of the file by fs.writeFileSync: the
\* directory is made, and the file is made or truncated (flag 'w')
SaveToFileOpen(outputPath, fs, ds) == SaveToFile("", outputPath, fs, ds)

(* ---------------------------- testCDNAccess ---------------------------- *)

\* bodies a CDN sends with HTTP 200, as text: the files, an empty body, and
\* two bodies that are JSON
AccessBodies == FileContents \cup {"", "null", "{\"data\":[]}"}

\* the content-type header of a response, which may be absent
ContentTypes == {Str("application/javascript"), Undefined}

\* statuses below 500 other than 200, which validateStatus accepts
AccessOtherStatuses == {204, 304, 403, 404}

\* statuses validateStatus refuses
AccessRefusedStatuses == {500, 503}

\* what `await axios.get(url, { timeout, validateStatus })` can do: resolve
\* with a response of status below 500, or reject
AccessOutcomes ==
  {[settled |-> "resolve", status |-> 200, body |-> b, data |-> TransformResponse(b),
    contentType |-> c] : b \in AccessBodies, c \in ContentTypes}
  \cup {[settled |-> "resolve", status |-> st, body |-> "", data |-> Str(""),
         contentType |-> Undefined] : st \in AccessOtherStatuses}
  \cup {[settled |-> "reject", hasResponse |-> TRUE, status |-> st,
         message |-> <<"Request failed with status code ", ToString(st)>>]
        : st \in AccessRefusedStatuses}
  \cup {[settled |-> "reject", hasResponse |-> FALSE, message |-> <<m>>]
        : m \in {"Network Error", "timeout of 10000ms exceeded"}}

\* the domains of the URLs that are tested; a configuration without
\* cdnDomain gives the URL https://undefined/<fileName>
CdnDomains == {"test-cdn.com", "cdn.your-domain.com", "undefined"}

AccessRequest(url) == [method |-> "GET", url |-> url]

\* v.length: the number of UTF-16 code units of a string, undefined on an
\* object that has no such property
LengthField(v) == IF v.t = "str" THEN JNum(Len(v.s)) ELSE Undefined

\* testCDNAccess(url): the value it returns and the request it makes; a
\* TypeError raised in the try block is caught by the catch block
TestCDNAccess(url, outcome) ==
  [outcome |->
     IF outcome.settled = "resolve"
     THEN IF outcome.status = 200
          THEN IF CanReadProperty(outcome.data)
               THEN Return([success |-> TRUE, status |-> outcome.status,
                            size |-> LengthField(outcome.data),
                            contentType |-> outcome.contentType])
               ELSE Return([success |-> FALSE,
                            error |-> TypeErrorMessage(outcome.data, "length")])
          ELSE Return([success |-> FALSE, status |-> outcome.status,
                       message |-> <<"HTTP ", ToString(outcome.status)>>])
     ELSE Return([success |-> FALSE, error |-> outcome.message]),
   calls |-> <<[request |-> AccessRequest(url), response |-> outcome]>>]

(* -------------------------- cloudflare/deploy.js ------------------------ *)

DeployEnvironments == {"development", "staging"}

\* what loadDeploymentConfig(environment) does: it returns a configuration
\* put together from the environment variables and config.json, or throws
\* for an environment config.json does not have
LoadOutcomes(environment) ==
  {Return(config) : config \in CdnConfigs}
  \cup {Throw(<<"Environment '", environment, "' not found in config">>)}

\* the answers of the HTTP layer tried on the access check of a deployment
VerifyOutcomes ==
  {[settled |-> "resolve", status |-> 200, body |-> "export const a = 1;",
    data |-> Str("export const a = 1;"), contentType |-> Str("application/javascript")],
   [settled |-> "resolve", status |-> 200, body |-> "null", data |-> Null,
    contentType |-> Str("application/javascript")],
   [settled |-> "resolve", status |-> 404, body |-> "", data |-> Str(""),
    contentType |-> Undefined],
   [settled |-> "reject", hasResponse |-> FALSE, message |-> <<"Network Error">>]}

NoAccess == [kind |-> "none"]

\* deploySingleFile that reports the deployment as the access check found it
DeploySingleFileAsVerified(loaded, filePath, fileName, fs, putOutcome, accessOutcome) ==
  IF loaded.kind = "throw"
  THEN [outcome |-> loaded, calls |-> <<>>, record |-> NoAccess, access |-> NoAccess]
  ELSE LET d == DeployToCDN(loaded.value, filePath, fileName, fs, putOutcome) IN
       IF d.outcome.kind = "return" /\ d.outcome.value.success
       THEN LET a == TestCDNAccess(d.outcome.value.url, accessOutcome) IN
            [outcome |-> Return([d.outcome.value EXCEPT
                                   !.success = a.outcome.value.success]),
             calls |-> d.calls \o a.calls,
             record |-> d.outcome, access |-> a.outcome]
       ELSE [outcome |-> d.outcome, calls |-> d.calls,
             record |-> d.outcome, access |-> NoAccess]

\* deploySingleFile(filePath, fileName, environment): record is what
\* deployToCDN left behind, access what testCDNAccess returned
DeploySingleFile(loaded, filePath, fileName, fs, putOutcome, accessOutcome) ==
  IF loaded.kind = "throw"
  THEN [outcome |-> loaded, calls |-> <<>>, record |-> NoAccess, access |-> NoAccess]
  ELSE LET d == DeployToCDN(loaded.value, filePath, fileName, fs, putOutcome) IN
       IF d.outcome.kind = "return" /\ d.outcome.value.success
       THEN LET a == TestCDNAccess(d.outcome.value.url, accessOutcome) IN
            [outcome |-> d.outcome, calls |-> d.calls \o a.calls,
             record |-> d.outcome, access |-> a.outcome]
       ELSE [outcome |-> d.outcome, calls |-> d.calls,
             record |-> d.outcome, access |-> NoAccess]

\* one turn of the loop `for (const result of results.results)` of
\* deployOutputFiles: v holds the values testCDNAccess returned so far and
\* the requests it made
VerifyStep(v, result, accessOutcome) ==
  IF result.success
  THEN [accesses |-> Append(v.accesses,
                            [url |-> result.url,
                             result |-> TestCDNAccess(result.url, accessOutcome).outcome]),
        calls |-> v.calls \o TestCDNAccess(result.url, accessOutcome).calls]
  ELSE v

\* that loop from its i-th result on
RECURSIVE VerifyLoop(_, _, _, _)
VerifyLoop(results, i, accessOutcomes, v) ==
  IF i > Len(results) THEN v
  ELSE VerifyLoop(results, i + 1, accessOutcomes,
                  VerifyStep(v, results[i], accessOutcomes[i]))

\* the orders fs.readdirSync may list the .js files of the output directory in
DirectoryListings(fs) ==
  LET present == {r \in FileRecords : ExistsSync(fs, r.filePath)} IN
  {l \in [1..Cardinality(present) -> present] : \A i, j \in DOMAIN l : i # j => l[i] # l[j]}

\* deployOutputFiles(environment) up to its call of deployMultipleFiles: what
\* it throws (its catch block throws again what it caught) or returns before
\* that call, and pending when it makes the call
OutputPrologue(loaded, fileList, fs, ds) ==
  IF loaded.kind = "throw" THEN loaded
  ELSE IF ~PathExists(fs, ds, "output")
  THEN Throw(<<"Output directory not found: ", "output">>)
  ELSE IF "output" \notin ds
  THEN Throw(<<"ENOTDIR: not a directory, scandir '", "output", "'">>)
  ELSE IF Len(fileList) = 0
  THEN Return([success |-> TRUE, message |-> "No files to deploy"])
  ELSE [kind |-> "pending"]

\* deployOutputFiles from the return of deployMultipleFiles on: the access
\* checks, and `return results`
OutputEpilogue(results, accessOutcomes) ==
  LET v == IF results.successful > 0
           THEN VerifyLoop(results.results, 1, accessOutcomes,
                           [accesses |-> <<>>, calls |-> <<>>])
           ELSE [accesses |-> <<>>, calls |-> <<>>]
  IN [outcome |-> Return(results), calls |-> v.calls, accesses |-> v.accesses]

\* the exit code of `node deploy.js deploy` that exits 0 whenever
\* deployOutputFiles returns
DeployExitCodeOnReturn(outcome) ==
  IF outcome.kind = "return" THEN 0 ELSE 1

\* `node deploy.js deploy`: process.exit(results.success ? 0 : 1) in the then
\* branch, process.exit(1) in the catch branch
DeployExitCode(outcome) ==
  IF outcome.kind = "return" /\ outcome.value.success THEN 0 ELSE 1

(* -------------------------------- main.js ------------------------------- *)
\* the endpoints of config.json
EndpointAccountSpecs ==
  [name |-> <<"a", "c", "c", "o", "u", "n", "t", "-", "s", "p", "e", "c", "s">>,
   path |-> "/api/account-specs", outputFile |-> "account-specs.js"]

EndpointOther ==
  [name |-> <<"o", "t", "h", "e", "r">>, path |-> "/api/test", outputFile |-> "other.js"]

\* an endpoint written without a name
EndpointUnnamed == [path |-> "/api/test", outputFile |-> "other.js"]

\* what require('./config') gives: no endpoint, one, two, and one without a name
SyncConfigs ==
  {[apiBaseUrl |-> "http://mock-api:3001", endpoints |-> e] :
     e \in {<<>>, <<EndpointAccountSpecs>>, <<EndpointAccountSpecs, EndpointOther>>,
            <<EndpointOther, EndpointAccountSpecs>>, <<EndpointUnnamed>>}}

\* the value axios decoded from the response, as a value of JSON.stringify
JsonOf(v) ==
  CASE v.t = "obj" ->
         Obj(<<Member("data", Arr([i \in DOMAIN v.data |-> JNum(v.data[i])]))>>)
    [] OTHER -> v

\* a template literal's pieces put together: the text of the module
RECURSIVE FlattenRange(_, _, _)
FlattenRange(tokens, lo, hi) ==
  IF lo > hi THEN ""
  ELSE IF lo = hi THEN tokens[lo]
  ELSE LET mid == (lo + hi) \div 2 IN
       FlattenRange(tokens, lo, mid) \o FlattenRange(tokens, mid + 1, hi)

Flatten(tokens) == FlattenRange(tokens, 1, Len(tokens))

\* path.join('output', outputFile)
PathJoinOutput(outputFile) == "output/" \o outputFile

\* the locals of main() when its try block is entered
RunLocals(config, fs, ds, timestamp) ==
  [pc |-> "start", config |-> config, endpoint |-> Undefined, apiData |-> Undefined,
   jsContent |-> <<>>, outputPath |-> "", stages |-> <<>>, failed |-> "none",
   error |-> <<>>, exit |-> -1, filesBefore |-> fs, dirsBefore |-> ds,
   logs |-> <<<<"Starting API-to-CDN sync process...">>, <<"Timestamp: ", timestamp>>>>]

\* error.stack: the name and the message of the error, then the frames
ErrorStack(error) ==
  <<IF error[1] = "Cannot read properties of " THEN "TypeError" ELSE "Error", ": ">>
  \o error \o <<"\n", "    at ">>

\* what the catch block of main() writes on the console
CatchLogs(error) ==
  <<<<"Sync process failed:">>, <<"Error: ">> \o error, <<"\nStack trace:">>,
    ErrorStack(error)>>

\* `${apiData.data?.length || 0}`
RecordCount(apiData) ==
  IF apiData.t = "obj" /\ "data" \in DOMAIN apiData
  THEN ToString(Len(apiData.data)) ELSE "0"

\* a catch block of main() that reports the error and lets the process end
\* with exit code 0
MainCatchExitZero(r, stage, error) ==
  [r EXCEPT !.pc = "exited", !.exit = 0, !.failed = stage, !.error = error,
            !.logs = @ \o CatchLogs(error)]

\* the catch block of main(): the error is reported and process.exit(1)
MainCatch(r, stage, error) ==
  [r EXCEPT !.pc = "exited", !.exit = 1, !.failed = stage, !.error = error,
            !.logs = @ \o CatchLogs(error)]

\* `const endpoint = config.endpoints[0]` and the log of endpoint.name
MainEndpoint(r) ==
  IF Len(r.config.endpoints) = 0
  THEN MainCatch(r, "main", TypeErrorMessage(Undefined, "name"))
  ELSE LET endpoint == r.config.endpoints[1] IN
       [r EXCEPT !.pc = "fetch", !.endpoint = endpoint,
                 !.logs = Append(@, <<"Processing endpoint: ">>
                                    \o (IF "name" \in DOMAIN endpoint THEN endpoint.name
                                        ELSE <<"undefined">>))]

\* step 1 of main(): `await fetchApiData(...)` has ended with `outcome`
\* having written the lines `logs`, and the log of apiData.data?.length
MainFetched(r, outcome, logs) ==
  LET begun == [r EXCEPT !.stages = Append(r.stages, "fetch"),
                         !.logs = Append(@, <<"Fetching data from API...">>) \o logs] IN
  IF outcome.kind = "throw" THEN MainCatch(begun, "fetch", outcome.message)
  ELSE IF ~CanReadProperty(outcome.value)
  THEN MainCatch(begun, "main", TypeErrorMessage(outcome.value, "data"))
  ELSE [begun EXCEPT !.pc = "transform", !.apiData = outcome.value,
                     !.logs = Append(@, <<"Successfully fetched ",
                                          RecordCount(outcome.value), " records">>)]

\* step 2 of main(): transformToJS(apiData, endpoint); toCamelCase calls
\* replace on endpoint.name
MainTransformed(r, clock) ==
  LET begun == [r EXCEPT !.stages = Append(r.stages, "transform"),
                         !.logs = Append(@, <<"Transforming data to JavaScript module...">>)]
  IN
  IF "name" \notin DOMAIN r.endpoint
  THEN MainCatch(begun, "transform", TypeErrorMessage(Undefined, "replace"))
  ELSE [begun EXCEPT !.pc = "persist",
                     !.jsContent = TransformToJSAt(JsonOf(r.apiData), r.endpoint, clock)]

\* step 3 of main(): saveToFile(jsContent, outputPath) has ended with
\* `outcome`; main() returns and the process ends with exit code 0
MainSaved(r, outputPath, outcome) ==
  LET begun == [r EXCEPT !.stages = Append(r.stages, "persist"),
                         !.outputPath = outputPath,
                         !.logs = Append(@, <<"Saving to output file...">>)] IN
  IF outcome.kind = "throw" THEN MainCatch(begun, "persist", outcome.message)
  ELSE [begun EXCEPT
          !.pc = "exited", !.exit = 0,
          !.logs = @ \o <<<<"Sync process completed successfully!">>,
                          <<"Generated file: ", outputPath>>,
                          <<"\nSummary:">>,
                          <<"- Endpoint: ">> \o r.endpoint.name,
                          <<"- Records: ", RecordCount(r.apiData)>>,
                          <<"- Output: ", outputPath>>,
                          <<"- Size: ", ToString(Len(Flatten(r.jsContent))), " bytes">>>>]

\* the step `Deploy to CDN` of the workflow, run whatever the step before did
DeployStepAlways(r) == r.pc = "exited"

\* the workflow runs its step `Deploy to CDN` after the step `Run sync
\* process`, when that step's command has ended with exit code 0
DeployStepRuns(r) == r.pc = "exited" /\ r.exit = 0

(* ------------------------------- state --------------------------------- *)

\* env      the process environment
\* files    the filesystem: path -> content of the files that exist
\* netCalls the exchanges with the HTTP layer made by the call in `last`
\* dirs     the directories that exist
\* batch    the local variables of a running deployMultipleFiles
\* last     the call made most recently: its arguments and its outcome
\* run      the position and the local variables of a run of main()
NoCall == [op |-> "none"]

NoBatch == [active |-> FALSE]

NoRun == [pc |-> "idle"]

Init ==
  /\ run = NoRun
  /\ env = [API_AUTH_TOKEN |-> Undefined]
  /\ files = [p \in {} |-> ""]
  /\ dirs = {".", "output"}
  /\ netCalls = <<>>
  /\ batch = NoBatch
  /\ last = NoCall

\* the environment sets or deletes process.env.API_AUTH_TOKEN
SetToken ==
  /\ ~batch.active
  /\ \E v \in TokenValues : env' = [env EXCEPT !.API_AUTH_TOKEN = v]
  /\ UNCHANGED <<files, dirs, netCalls, batch, last, run>>

\* one call of fetchApiData, run to completion
Fetch ==
  /\ ~batch.active
  /\ \E config \in FetchConfigs, outcome \in GetOutcomes :
       LET r == FetchApiData(config, env.API_AUTH_TOKEN, outcome) IN
       /\ netCalls' = r.calls
       /\ last' = [op |-> "fetchApiData", config |-> config,
                   token |-> env.API_AUTH_TOKEN, outcome |-> r.outcome,
                   logs |-> FetchLogs(config, env.API_AUTH_TOKEN, outcome)]
  /\ UNCHANGED <<env, files, dirs, batch, run>>

\* a file of the output directory is written (fs.writeFileSync)
WriteFile ==
  /\ ~batch.active
  /\ \E p \in OutputPaths, c \in FileContents :
       files' = [q \in DOMAIN files \cup {p} |-> IF q = p THEN c ELSE files[q]]
  /\ UNCHANGED <<env, dirs, netCalls, batch, last, run>>

\* a file of the output directory is removed
Unlink ==
  /\ ~batch.active
  /\ \E p \in DOMAIN files : files' = [q \in DOMAIN files \ {p} |-> files[q]]
  /\ UNCHANGED <<env, dirs, netCalls, batch, last, run>>

\* one call of deployToCDN, run to completion
Deploy ==
  /\ ~batch.active
  /\ \E config \in CdnConfigs, filePath \in OutputPaths, fileName \in FileNames :
       \E outcome \in IF ReachesUpload(config, filePath, files)
                      THEN PutOutcomes
                      ELSE {CHOOSE o \in PutOutcomes : TRUE} :
         LET r == DeployToCDN(config, filePath, fileName, files, outcome) IN
         /\ netCalls' = r.calls
         /\ last' = [op |-> "deployToCDN", config |-> config, filePath |-> filePath,
                     fileName |-> fileName, fileExisted |-> ExistsSync(files, filePath),
                     outcome |-> r.outcome,
                     logs |-> DeployLogs(config, filePath, fileName, files, outcome)]
  /\ UNCHANGED <<env, files, dirs, batch, run>>

\* deployMultipleFiles is called: its locals are set up
BatchStart ==
  /\ ~batch.active
  /\ \E config \in CdnConfigs, fileList \in FileLists :
       /\ batch' = BatchLocals(config, fileList)
       /\ last' = [op |-> "deployMultipleFiles", config |-> config,
                   files |-> fileList, outcome |-> [kind |-> "pending"]]
  /\ netCalls' = <<>>
  /\ UNCHANGED <<env, files, dirs, run>>

\* the loop takes the next file
BatchIter ==
  /\ batch.active
  /\ ~LoopDone(batch)
  /\ \E outcome \in IF ReachesUpload(batch.config, batch.files[batch.i].filePath, files)
                     THEN BatchPutOutcomes
                     ELSE {CHOOSE o \in BatchPutOutcomes : TRUE} :
       LET r == LoopBody(batch, files, outcome) IN
       /\ batch' = r.locals
       /\ netCalls' = netCalls \o r.calls
  /\ UNCHANGED <<env, files, dirs, last, run>>

\* the loop is over: deployMultipleFiles returns the aggregate
BatchReturn ==
  /\ batch.active
  /\ LoopDone(batch)
  /\ last.op = "deployMultipleFiles"
  /\ last' = [last EXCEPT !.outcome = Return(BatchResult(batch))]
  /\ batch' = NoBatch
  /\ UNCHANGED <<env, files, dirs, netCalls, run>>

\* transformToJS is about to be called on some data and endpoint name
InitRender ==
  /\ run = NoRun
  /\ env = [API_AUTH_TOKEN |-> Undefined]
  /\ files = [p \in {} |-> ""]
  /\ dirs = {".", "output"}
  /\ netCalls = <<>>
  /\ batch = NoBatch
  /\ \E data \in JsonData, name \in EndpointNames :
       last = [op |-> "transformToJS", data |-> data, config |-> [name |-> name],
               outcome |-> [kind |-> "pending"]]

\* the call of transformToJS; successive readings of the clock during the
\* call give `clock`
Transform ==
  /\ ~batch.active
  /\ last.op = "transformToJS"
  /\ last.outcome.kind = "pending"
  /\ \E clock \in Clocks :
       last' = [op |-> "transformToJS", data |-> last.data, config |-> last.config,
                timestamp |-> clock[1], clock |-> clock,
                outcome |-> Return(TransformToJSAt(last.data, last.config, clock))]
  /\ UNCHANGED <<env, files, dirs, netCalls, batch, run>>

\* a run starts in a working directory that holds nothing yet
InitPersist ==
  /\ run = NoRun
  /\ env = [API_AUTH_TOKEN |-> Undefined]
  /\ files = [p \in {} |-> ""]
  /\ dirs = {"."}
  /\ netCalls = <<>>
  /\ batch = NoBatch
  /\ last = NoCall

\* one call of saveToFile, run to completion
Save ==
  /\ ~batch.active
  /\ \E content \in FileContents, outputPath \in PersistPaths :
       LET r == SaveToFile(content, outputPath, files, dirs) IN
       /\ files' = r.files
       /\ dirs' = r.dirs
       /\ last' = [op |-> "saveToFile", content |-> content, outputPath |-> outputPath,
                   filesBefore |-> files, dirsBefore |-> dirs, outcome |-> r.outcome]
  /\ UNCHANGED <<env, netCalls, batch, run>>

\* what earlier runs of saveToFile can leave for the deploy command: nothing,
\* a file named output, one file in the output directory, both files, and
\* an output directory that holds a directory only
DeployFileSystems ==
  {[files |-> [p \in {} |-> ""], dirs |-> {"."}],
   [files |-> [p \in {"output"} |-> "export const a = 1;"], dirs |-> {"."}],
   [files |-> [p \in {"output/account-specs.js"} |-> "export const accountSpecs = [\"é\"];"],
    dirs |-> {".", "output"}],
   [files |-> [p \in OutputPaths |-> "export const a = 1;"], dirs |-> {".", "output"}],
   [files |-> [p \in {"output/archive/2025/account-specs.js"} |-> "export const a = 1;"],
    dirs |-> {".", "output", "output/archive", "output/archive/2025"}]}

\* the deploy command starts on what saveToFile left
InitDeploy ==
  /\ run = NoRun
  /\ env = [API_AUTH_TOKEN |-> Undefined]
  /\ \E fs \in DeployFileSystems : files = fs.files /\ dirs = fs.dirs
  /\ netCalls = <<>>
  /\ batch = NoBatch
  /\ last = NoCall

\* one call of testCDNAccess, run to completion
TestAccess ==
  /\ ~batch.active
  /\ \E domain \in CdnDomains, fileName \in FileNames,
        outcome \in AccessOutcomes :
       LET url == "https://" \o domain \o "/" \o fileName
           r == TestCDNAccess(url, outcome)
       IN /\ netCalls' = r.calls
          /\ last' = [op |-> "testCDNAccess", url |-> url, outcome |-> r.outcome]
  /\ UNCHANGED <<env, files, dirs, batch, run>>

\* a process that has made no call yet calls deploySingleFile; the call is
\* run to completion
DeploySingle ==
  /\ ~batch.active
  /\ last = NoCall
  /\ \E environment \in DeployEnvironments, filePath \in OutputPaths, fileName \in FileNames :
       \E loaded \in LoadOutcomes(environment) :
         LET reaches == loaded.kind = "return" /\ ReachesUpload(loaded.value, filePath, files) IN
         \E putOutcome \in IF reaches THEN BatchPutOutcomes
                           ELSE {CHOOSE o \in BatchPutOutcomes : TRUE} :
           \E accessOutcome \in IF reaches /\ putOutcome.settled = "resolve"
                                   /\ SuccessField(putOutcome.data)
                                THEN VerifyOutcomes
                                ELSE {CHOOSE o \in VerifyOutcomes : TRUE} :
             LET r == DeploySingleFile(loaded, filePath, fileName, files, putOutcome,
                                       accessOutcome)
             IN /\ netCalls' = r.calls
                /\ last' = [op |-> "deploySingleFile", environment |-> environment,
                            loaded |-> loaded, filePath |-> filePath, fileName |-> fileName,
                            record |-> r.record, access |-> r.access, outcome |-> r.outcome]
  /\ UNCHANGED <<env, files, dirs, batch, run>>

\* `node deploy.js deploy <environment>`: the one call of deployOutputFiles
\* the process makes before it exits, up to its call of deployMultipleFiles
OutputStart ==
  /\ ~batch.active
  /\ last = NoCall
  /\ \E environment \in DeployEnvironments, fileList \in DirectoryListings(files) :
       \E loaded \in LoadOutcomes(environment) :
         LET outcome == OutputPrologue(loaded, fileList, files, dirs) IN
         /\ batch' = IF outcome.kind = "pending"
                     THEN BatchLocals(loaded.value, fileList)
                     ELSE NoBatch
         /\ last' = [op |-> "deployOutputFiles", environment |-> environment,
                     loaded |-> loaded, files |-> fileList,
                     batchResult |-> NoAccess, accesses |-> <<>>, outcome |-> outcome]
  /\ netCalls' = <<>>
  /\ UNCHANGED <<env, files, dirs, run>>

\* deployMultipleFiles has returned to deployOutputFiles, which makes its
\* access checks and returns
OutputVerify ==
  /\ batch.active
  /\ LoopDone(batch)
  /\ last.op = "deployOutputFiles"
  /\ LET results == BatchResult(batch)
         n == Len(results.results)
     IN \E accessOutcomes \in
             {a \in [1..n -> VerifyOutcomes] :
                \A i \in 1..n : results.results[i].success
                                \/ a[i] = CHOOSE o \in VerifyOutcomes : TRUE} :
          LET r == OutputEpilogue(results, accessOutcomes) IN
          /\ netCalls' = netCalls \o r.calls
          /\ last' = [last EXCEPT !.batchResult = Return(results),
                                  !.accesses = r.accesses,
                                  !.outcome = r.outcome]
  /\ batch' = NoBatch
  /\ UNCHANGED <<env, files, dirs, run>>

\* the then and catch branches of `node deploy.js deploy`: the process exits
DeployExit ==
  /\ ~batch.active
  /\ last.op = "deployOutputFiles"
  /\ last.outcome.kind # "pending"
  /\ last' = [op |-> "deploy", environment |-> last.environment, call |-> last,
              exit |-> DeployExitCode(last.outcome)]
  /\ UNCHANGED <<env, files, dirs, netCalls, batch, run>>

\* the workflow is about to run `node main.js`: the token is a secret that
\* is set or not, and the working directory is as earlier runs left it
InitPipeline ==
  /\ run = NoRun
  /\ \E token \in {Undefined, Str("test-token-123")} : env = [API_AUTH_TOKEN |-> token]
  /\ \E fs \in DeployFileSystems : files = fs.files /\ dirs = fs.dirs
  /\ netCalls = <<>>
  /\ batch = NoBatch
  /\ last = NoCall

\* main() is called and picks its endpoint
MainStart ==
  /\ run.pc = "idle"
  /\ \E config \in SyncConfigs, timestamp \in Timestamps :
       run' = MainEndpoint(RunLocals(config, files, dirs, timestamp))
  /\ UNCHANGED <<env, files, dirs, netCalls, batch, last>>

\* step 1 of main(): the call of fetchApiData, run to completion
MainFetch ==
  /\ run.pc = "fetch"
  /\ \E outcome \in GetOutcomes :
       LET r == FetchApiData([apiBaseUrl |-> run.config.apiBaseUrl,
                              path |-> run.endpoint.path],
                             env.API_AUTH_TOKEN, outcome)
       IN /\ netCalls' = r.calls
          /\ run' = MainFetched(run, r.outcome,
                                 FetchLogs([apiBaseUrl |-> run.config.apiBaseUrl,
                                            path |-> run.endpoint.path],
                                           env.API_AUTH_TOKEN, outcome))
  /\ UNCHANGED <<env, files, dirs, batch, last>>

\* step 2 of main(): the call of transformToJS
MainTransform ==
  /\ run.pc = "transform"
  /\ \E clock \in Clocks : run' = MainTransformed(run, clock)
  /\ UNCHANGED <<env, files, dirs, netCalls, batch, last>>

\* step 3 of main(): the call of saveToFile, and the end of the process
MainSave ==
  /\ run.pc = "persist"
  /\ LET outputPath == PathJoinOutput(run.endpoint.outputFile)
         r == SaveToFile(Flatten(run.jsContent), outputPath, files, dirs)
     IN /\ files' = r.files
        /\ dirs' = r.dirs
        /\ run' = MainSaved(run, outputPath, r.outcome)
  /\ UNCHANGED <<env, netCalls, batch, last>>

\* the workflow's step `Deploy to CDN` starts `node deploy.js deploy`
WorkflowDeploy ==
  /\ DeployStepRuns(run)
  /\ OutputStart

\* saveToFile is called and runs up to the opening of the output file
PersistOpen ==
  /\ last.outcome.kind # "pending"
  /\ \E content \in FileContents, outputPath \in PersistPaths :
       LET r == SaveToFileOpen(outputPath, files, dirs) IN
       /\ files' = r.files
       /\ dirs' = r.dirs
       /\ last' = [op |-> "saveToFile", content |-> content, outputPath |-> outputPath,
                   filesBefore |-> files, dirsBefore |-> dirs, written |-> 0,
                   outcome |-> IF r.outcome.kind = "throw" THEN r.outcome
                               ELSE [kind |-> "pending"]]
  /\ UNCHANGED <<env, netCalls, batch, run>>

\* fs.writeFileSync writes what is left of the text, or the next piece of it
PersistWrite ==
  /\ last.outcome.kind = "pending"
  /\ last.written < Len(Chunks(last.content))
  /\ \E n \in (last.written + 1)..Len(Chunks(last.content)) :
       /\ files' = [files EXCEPT ![last.outputPath] =
                      @ \o FlattenRange(Chunks(last.content), last.written + 1, n)]
       /\ last' = [last EXCEPT !.written = n]
  /\ UNCHANGED <<env, dirs, netCalls, batch, run>>

\* the whole text is written: the file is closed and saveToFile returns
PersistReturn ==
  /\ last.outcome.kind = "pending"
  /\ last.written = Len(Chunks(last.content))
  /\ last' = [last EXCEPT !.outcome = Return(Undefined)]
  /\ UNCHANGED <<env, files, dirs, netCalls, batch, run>>

\* the process is killed, or the machine stops, while saveToFile is running
Crash ==
  /\ last.outcome.kind = "pending"
  /\ last' = [last EXCEPT !.outcome = [kind |-> "crashed"]]
  /\ UNCHANGED <<env, files, dirs, netCalls, batch, run>>

\* calls of saveToFile, one after the other, none is running yet
InitCrash ==
  /\ run = NoRun
  /\ env = [API_AUTH_TOKEN |-> Undefined]
  /\ files = [p \in {} |-> ""]
  /\ dirs = {"."}
  /\ netCalls = <<>>
  /\ batch = NoBatch
  /\ last = [op |-> "none", outcome |-> Return(Undefined)]

\* the output directory holds both files
InitPublish ==
  /\ run = NoRun
  /\ env = [API_AUTH_TOKEN |-> Undefined]
  /\ files = [p \in OutputPaths |-> "export const a = 1;"]
  /\ dirs = {".", "output"}
  /\ netCalls = <<>>
  /\ batch = NoBatch
  /\ last = NoCall

\* one call of deployToCDN, run to completion, after the calls made before:
\* netCalls keeps the exchanges of all of them
Publish ==
  /\ ~batch.active
  /\ Len(netCalls) < MaxPublishes
  /\ \E config \in PublishConfigs, file \in FileRecords, outcome \in BatchPutOutcomes :
       LET r == DeployToCDN(config, file.filePath, file.fileName, files, outcome) IN
       /\ netCalls' = netCalls \o r.calls
       /\ last' = [op |-> "deployToCDN", config |-> config, filePath |-> file.filePath,
                   fileName |-> file.fileName, content |-> files[file.filePath],
                   callsBefore |-> Len(netCalls), outcome |-> r.outcome]
  /\ UNCHANGED <<env, files, dirs, batch, run>>

\* a command is about to be run: the token is unset, empty or set, and the
\* working directory is as earlier runs left it
InitLogs ==
  /\ run = NoRun
  /\ \E token \in TokenValues : env = [API_AUTH_TOKEN |-> token]
  /\ \E fs \in DeployFileSystems : files = fs.files /\ dirs = fs.dirs
  /\ netCalls = <<>>
  /\ batch = NoBatch
  /\ last = NoCall

\* the process makes one call of fetchApiData
CommandFetch == last = NoCall /\ run = NoRun /\ Fetch

\* the process makes one call of deployToCDN
CommandDeploy == last = NoCall /\ run = NoRun /\ Deploy

\* the process is `node main.js`
CommandMain == last = NoCall /\ MainStart

NextFetcher == SetToken \/ Fetch

NextDeployer == WriteFile \/ Unlink \/ Deploy

NextBatch == WriteFile \/ Unlink \/ BatchStart \/ BatchIter \/ BatchReturn

NextRender == Transform

NextPersist == Save

NextAccess == TestAccess

NextVerify == DeploySingle \/ OutputStart \/ BatchIter \/ OutputVerify \/ DeployExit

NextCrash == PersistOpen \/ PersistWrite \/ PersistReturn \/ Crash

NextPublish == WriteFile \/ Publish

NextLogs ==
  CommandFetch \/ CommandDeploy \/ CommandMain \/ MainFetch \/ MainTransform \/ MainSave

NextPipeline ==
  MainStart \/ MainFetch \/ MainTransform \/ MainSave \/ WorkflowDeploy \/ BatchIter
  \/ OutputVerify \/ DeployExit

Next == SetToken \/ Fetch \/ WriteFile \/ Unlink \/ Deploy
        \/ BatchStart \/ BatchIter \/ BatchReturn \/ Transform \/ Save
        \/ TestAccess \/ DeploySingle \/ OutputStart \/ OutputVerify

Spec == Init /\ [][Next]_vars

\* the fetcher on its own
SpecFetcher == Init /\ [][NextFetcher]_vars

\* deployToCDN and the output directory on their own
SpecDeployer == Init /\ [][NextDeployer]_vars

\* deployMultipleFiles and the output directory on their own
SpecBatch == Init /\ [][NextBatch]_vars

\* transformToJS on its own
SpecRender == InitRender /\ [][NextRender]_vars

SpecPersist == InitPersist /\ [][NextPersist]_vars

\* testCDNAccess on its own
SpecAccess == Init /\ [][NextAccess]_vars

\* one run of the deploy command on the files saveToFile leaves
SpecVerify == InitDeploy /\ [][NextVerify]_vars

\* saveToFile by the steps of fs.writeFileSync, with crashes
SpecCrash == InitCrash /\ [][NextCrash]_vars

\* calls of deployToCDN one after the other, the files changing in between
SpecPublish == InitPublish /\ [][NextPublish]_vars

\* one command, and what it writes on the console
SpecLogs == InitLogs /\ [][NextLogs]_vars

\* a run of the workflow: `node main.js`, then `node deploy.js deploy`
SpecPipeline == InitPipeline /\ [][NextPipeline]_vars

(* ------------------------- reading an outcome --------------------------- *)

\* part p occurs in message m
HasPart(m, p) == \E i \in 1..Len(m) : m[i] = p

Thrown(o) == o.kind = "throw"

TokenRequired == <<"API_AUTH_TOKEN environment variable is required">>

CloudflareConfigRequired ==
  <<"Missing required Cloudflare configuration: apiToken, zoneId, accountId">>

IsConfigurationError(o) ==
  Thrown(o) /\ o.message \in {TokenRequired, CloudflareConfigRequired}

IsAuthenticationError(o) ==
  Thrown(o) /\ (HasPart(o.message, "Authentication failed: ")
                \/ HasPart(o.message, "Cloudflare authentication failed - check API token"))

IsAuthorizationError(o) ==
  Thrown(o) /\ HasPart(o.message, "Cloudflare access denied - check account permissions")

IsUpstreamHttpError(o) == Thrown(o) /\ HasPart(o.message, "API error (")

IsNetworkError(o) == Thrown(o) /\ HasPart(o.message, "Network error: ")

IsRemoteRejection(o) ==
  Thrown(o) /\ (HasPart(o.message, "Cloudflare API error: ")
                \/ HasPart(o.message, "KV upload failed: "))

IsNotFoundError(o) == Thrown(o) /\ Len(o.message) = 2 /\ o.message[1] = "File not found: "

\* the one answer the HTTP layer gave to the call in `last`
Answered == Len(netCalls) = 1

Answer == netCalls[1].response

Fetched == last.op = "fetchApiData"

Deployed == last.op = "deployToCDN"

\* the upstream-provided error detail of an error response, when present
HasDetail(r) == r.data.t = "obj" /\ "error" \in DOMAIN r.data /\ ~Falsy(r.data.error)

(* -------------------------------- claims -------------------------------- *)

\* C1: a fetch made while no token is in the environment (unset or empty)
\* fails with 'API_AUTH_TOKEN environment variable is required' and hands no
\* request to the HTTP layer, whatever the endpoint configuration.
C1_AuthGating ==
  (Fetched /\ Falsy(last.token))
    => (last.outcome = Throw(TokenRequired) /\ netCalls = <<>>)

C1_Witness ==
  Fetched /\ last.token = Undefined /\ last.config.path = "/api/account-specs"

\* C2: deployToCDN fails with the configuration error, before any PUT, when
\* one of credential token, account id, namespace id or public domain is
\* missing, and does not fail with it when all four are present.
C2_FourFieldsRequired ==
  Deployed =>
    LET missingOne == \E f \in {"apiToken", "accountId", "namespaceId", "cdnDomain"} :
                        Falsy(last.config[f])
    IN /\ missingOne => (IsConfigurationError(last.outcome) /\ netCalls = <<>>)
       /\ ~missingOne => ~IsConfigurationError(last.outcome)

\* C3: deployMultipleFiles takes every record of its list in turn, whatever
\* failed before: while it runs it has one result per record taken, and it
\* returns (never throws) an aggregate with one result per input record, in
\* input order.
C3_BatchIndependence ==
  /\ batch.active =>
       /\ batch.i \in 1..(Len(batch.files) + 1)
       /\ Len(batch.results) = batch.i - 1
  /\ last.op = "deployMultipleFiles" =>
       /\ last.outcome.kind \in {"pending", "return"}
       /\ last.outcome.kind = "pending" <=> batch.active
       /\ last.outcome.kind = "return" =>
            /\ Len(last.outcome.value.results) = Len(last.files)
            /\ \A i \in 1..Len(last.files) :
                 last.outcome.value.results[i].fileName = last.files[i].fileName

\* a batch has returned in which a record failed and a later one succeeded
C3_Witness ==
  /\ last.op = "deployMultipleFiles"
  /\ last.outcome.kind = "return"
  /\ \E i, j \in 1..Len(last.files) :
       /\ i < j
       /\ ~last.outcome.value.results[i].success
       /\ last.outcome.value.results[j].success

\* a response of the CDN write API that says success: false and lists errors,
\* outside the 401 and 403 answers
RejectedWithErrors(r) ==
  /\ r.settled = "resolve" \/ (r.hasResponse /\ r.status \notin {401, 403})
  /\ r.data.t = "obj"
  /\ ~r.data.success
  /\ "errors" \in DOMAIN r.data

\* C4: when the CDN write API answers the PUT with success: false and an
\* errors list, deployToCDN fails with a remote rejection whose message has
\* the JSON text of the errors list, and never with a network error.
C4_RemoteRejection ==
  (Deployed /\ Answered /\ RejectedWithErrors(Answer))
    => /\ IsRemoteRejection(last.outcome)
       /\ HasPart(last.outcome.message, JsonStringify(Answer.data.errors))
       /\ ~IsNetworkError(last.outcome)

\* C5: every 401 answer to a fetch, with or without a body or an error
\* field, makes it fail with 'Authentication failed: ', followed by the
\* upstream error detail when there is one.
C5_Fetch401 ==
  (Fetched /\ Answered /\ Answer.settled = "reject" /\ Answer.hasResponse
     /\ Answer.status = 401)
    => /\ IsAuthenticationError(last.outcome)
       /\ HasDetail(Answer) =>
            last.outcome.message = <<"Authentication failed: ", Answer.data.error.s>>

\* C6: a 4xx/5xx answer other than 401 makes fetch fail with
\* 'API error (<status>): <detail>', <detail> being the upstream error
\* detail when there is one; 500 with 'Internal server error' gives
\* 'API error (500): Internal server error'.
C6_FetchHttpError ==
  (Fetched /\ Answered /\ Answer.settled = "reject" /\ Answer.hasResponse
     /\ Answer.status >= 400 /\ Answer.status <= 599 /\ Answer.status # 401)
    => /\ IsUpstreamHttpError(last.outcome)
       /\ ~IsAuthenticationError(last.outcome) /\ ~IsNetworkError(last.outcome)
       /\ Len(last.outcome.message) >= 4
       /\ SubSeq(last.outcome.message, 1, 3)
            = <<"API error (", ToString(Answer.status), "): ">>
       /\ HasDetail(Answer) =>
            last.outcome.message
              = <<"API error (", ToString(Answer.status), "): ", Answer.data.error.s>>
       /\ (Answer.status = 500 /\ Answer.data = [t |-> "obj", error |-> Str("Internal server error")])
            => last.outcome.message
                 = <<"API error (", "500", "): ", "Internal server error">>

C6_Witness ==
  /\ Fetched /\ Answered /\ Answer.settled = "reject" /\ Answer.hasResponse
  /\ Answer.status = 500
  /\ Answer.data = [t |-> "obj", error |-> Str("Internal server error")]

\* C7: a fetch whose request got no HTTP response fails with
\* 'Network error: <cause message>', never with the authentication or the
\* upstream HTTP error.
C7_FetchNetworkError ==
  (Fetched /\ Answered /\ Answer.settled = "reject" /\ ~Answer.hasResponse)
    => /\ last.outcome = Throw(<<"Network error: ">> \o Answer.message)
       /\ ~IsAuthenticationError(last.outcome)
       /\ ~IsUpstreamHttpError(last.outcome)

C7_Witness ==
  /\ Fetched /\ Answered /\ Answer.settled = "reject" /\ ~Answer.hasResponse
  /\ Answer.message = <<"timeout of 10000ms exceeded">>

\* C8: on HTTP 200 fetch returns the JSON value of the body, and a body that
\* is not JSON makes it fail instead of being returned.
C8_Fetch200 ==
  (Fetched /\ Answered /\ Answer.settled = "resolve" /\ Answer.status = 200)
    => IF JsonParse(Answer.body).ok
       THEN last.outcome = Return(JsonParse(Answer.body).value)
       ELSE Thrown(last.outcome)

\* C9: how a failed upload is classified depends on the failure alone: 401
\* gives the authentication error, 403 the (different) access-denied error,
\* both whatever errors list the body has, and no response gives
\* 'Network error: <cause message>'.
C9_UploadClassification ==
  (Deployed /\ Answered /\ Answer.settled = "reject")
    => /\ (Answer.hasResponse /\ Answer.status = 401) =>
            /\ last.outcome = Throw(<<"CDN deployment failed: ",
                                      "Cloudflare authentication failed - check API token">>)
            /\ ~IsAuthorizationError(last.outcome)
       /\ (Answer.hasResponse /\ Answer.status = 403) =>
            /\ last.outcome = Throw(<<"CDN deployment failed: ",
                                      "Cloudflare access denied - check account permissions">>)
            /\ ~IsAuthenticationError(last.outcome)
       /\ ~Answer.hasResponse =>
            last.outcome = Throw(<<"CDN deployment failed: ", "Network error: ">>
                                 \o Answer.message)

\* a 401 answer whose body lists errors
C9_Witness ==
  /\ Deployed /\ Answered /\ Answer.settled = "reject" /\ Answer.hasResponse
  /\ Answer.status = 401
  /\ Answer.data.t = "obj" /\ "errors" \in DOMAIN Answer.data
  /\ Answer.data.errors.items # <<>>

\* every field of the configuration is there
ConfigComplete(config) == \A f \in ConfigFields : ~Falsy(config[f])

\* C10: with a complete configuration and no file at filePath, deployToCDN
\* fails with 'File not found: <filePath>', which is not the configuration
\* error, and hands no request to the HTTP layer.
C10_FileNotFound ==
  (Deployed /\ ConfigComplete(last.config) /\ ~last.fileExisted)
    => /\ last.outcome = Throw(<<"File not found: ", last.filePath>>)
       /\ IsNotFoundError(last.outcome)
       /\ ~IsConfigurationError(last.outcome)
       /\ netCalls = <<>>

\* the other file of the output directory is there, this one is not
C10_Witness ==
  /\ Deployed /\ ConfigComplete(last.config) /\ ~last.fileExisted
  /\ last.filePath = "output/other.js"
  /\ "output/account-specs.js" \in DOMAIN files

\* the CDN write API accepted the one PUT of the call in `last`
Accepted ==
  Deployed /\ Answered /\ Answer.settled = "resolve" /\ SuccessField(Answer.data)

\* C11: when the remote store accepts the upload, deployToCDN returns
\* success = true, the file name as key, url = https://<cdnDomain>/<key>
\* and a size equal to the number of bytes uploaded.
C11_DeploymentRecord ==
  Accepted =>
    /\ last.outcome.kind = "return"
    /\ last.outcome.value.success
    /\ last.outcome.value.fileName = last.fileName
    /\ last.outcome.value.kvResult.key = last.fileName
    /\ last.outcome.value.url
         = "https://" \o Interp(last.config.cdnDomain) \o "/" \o last.fileName
    /\ last.outcome.value.size = Utf8Length(netCalls[1].request.body)

(* ---------------------- reading a generated module ---------------------- *)

Rendered == last.op = "transformToJS" /\ last.outcome.kind = "return"

Text == last.outcome.value

\* the first position from `from` on where piece tok stands, 0 if nowhere
IndexOf(text, tok, from) ==
  IF \E i \in from..Len(text) : text[i] = tok
  THEN CHOOSE i \in from..Len(text) : text[i] = tok /\ \A j \in from..(i - 1) : text[j] # tok
  ELSE 0

\* sub stands in text, piece by piece
ContainsSeq(text, sub) ==
  \E i \in 1..(Len(text) - Len(sub) + 1) : SubSeq(text, i, i + Len(sub) - 1) = sub

\* where the top-level `export const` declarations start
ExportPositions(text) == {i \in 1..Len(text) : text[i] = "export const "}

\* the name declared at position i: what stands between `export const ` and ` = `
BindingName(text, i) == SubSeq(text, i + 1, IndexOf(text, " = ", i + 1) - 1)

\* the identifier that follows the first `export const`
DataIdentifier(text) == BindingName(text, IndexOf(text, "export const ", 1))

\* the literal between `export const <identifier> = ` and the `;` that ends it
DataLiteral(text) ==
  LET a == IndexOf(text, " = ", IndexOf(text, "export const ", 1))
      z == IndexOf(text, ";", a)
  IN SubSeq(text, a + 1, z - 1)

\* the hyphens of str that stand right before a letter
HyphensBeforeLetter(str) ==
  {i \in 1..(Len(str) - 1) : str[i] = "-" /\ (IsLower(str[i + 1]) \/ IsUpper(str[i + 1]))}

\* str without the characters at the positions M, the character after each of
\* them upper-cased, all others kept in order
WithoutHyphens(str, M) ==
  LET kept == (1..Len(str)) \ M
      pos(k) == CHOOSE i \in kept : Cardinality({j \in kept : j < i}) = k - 1
  IN [k \in 1..Cardinality(kept) |->
        IF (pos(k) - 1) \in M THEN ToUpperCase(str[pos(k)]) ELSE str[pos(k)]]

CamelCaseExamples ==
  /\ last.config.name = <<"s", "i", "n", "g", "l", "e">>
       => DataIdentifier(Text) = <<"s", "i", "n", "g", "l", "e">>
  /\ last.config.name = <<"a", "c", "c", "o", "u", "n", "t", "-", "s", "p", "e", "c", "s">>
       => DataIdentifier(Text) = <<"a", "c", "c", "o", "u", "n", "t", "S", "p", "e", "c", "s">>
  /\ last.config.name = <<"t", "r", "a", "d", "i", "n", "g", "-", "i", "n", "s", "t", "r", "u", "m", "e", "n", "t", "s">>
       => DataIdentifier(Text) = <<"t", "r", "a", "d", "i", "n", "g", "I", "n", "s", "t", "r", "u", "m", "e", "n", "t", "s">>

\* JSON.parse on a sequence of tokens
IsWhiteSpace(tok) == tok \in {"\n", "", "  ", "    ", "      ", "        "}

RECURSIVE SkipWhiteSpace(_, _)
SkipWhiteSpace(toks, i) ==
  IF i <= Len(toks) /\ IsWhiteSpace(toks[i]) THEN SkipWhiteSpace(toks, i + 1) ELSE i

ParseFail == [ok |-> FALSE]

Parsed(v, next) == [ok |-> TRUE, value |-> v, next |-> next]

RECURSIVE ParseValue(_, _)
RECURSIVE ParseItems(_, _, _)
RECURSIVE ParseMembers(_, _, _)
ParseValue(toks, i0) ==
  LET i == SkipWhiteSpace(toks, i0) IN
  IF i > Len(toks) THEN ParseFail
  ELSE LET tok == toks[i] IN
       CASE tok = "null" -> Parsed(Null, i + 1)
         [] tok = "true" -> Parsed(JBool(TRUE), i + 1)
         [] tok = "false" -> Parsed(JBool(FALSE), i + 1)
         [] tok = "[]" -> Parsed(Arr(<<>>), i + 1)
         [] tok = "{}" -> Parsed(Obj(<<>>), i + 1)
         [] tok = "[" -> ParseItems(toks, i + 1, <<>>)
         [] tok = "{" -> ParseMembers(toks, i + 1, <<>>)
         [] \E n \in JsonNumberPool : ToString(n) = tok ->
              Parsed(JNum(CHOOSE n \in JsonNumberPool : ToString(n) = tok), i + 1)
         [] \E str \in JsonStringPool : Quote(str) = tok ->
              Parsed(Str(CHOOSE str \in JsonStringPool : Quote(str) = tok), i + 1)
         [] OTHER -> ParseFail

ParseItems(toks, i, acc) ==
  LET r == ParseValue(toks, i) IN
  IF ~r.ok THEN ParseFail
  ELSE LET j == SkipWhiteSpace(toks, r.next) IN
       IF j > Len(toks) THEN ParseFail
       ELSE IF toks[j] = "," THEN ParseItems(toks, j + 1, Append(acc, r.value))
       ELSE IF toks[j] = "]" THEN Parsed(Arr(Append(acc, r.value)), j + 1)
       ELSE ParseFail

ParseMembers(toks, i0, acc) ==
  LET i == SkipWhiteSpace(toks, i0) IN
  IF i + 1 > Len(toks) \/ toks[i + 1] # ": "
     \/ ~\E str \in JsonStringPool : Quote(str) = toks[i]
  THEN ParseFail
  ELSE LET key == CHOOSE str \in JsonStringPool : Quote(str) = toks[i]
           r == ParseValue(toks, i + 2)
       IN IF ~r.ok THEN ParseFail
          ELSE LET j == SkipWhiteSpace(toks, r.next) IN
               IF j > Len(toks) THEN ParseFail
               ELSE IF toks[j] = ","
               THEN ParseMembers(toks, j + 1, Append(acc, Member(key, r.value)))
               ELSE IF toks[j] = "}"
               THEN Parsed(Obj(Append(acc, Member(key, r.value))), j + 1)
               ELSE ParseFail

\* the value of a JSON text, when the whole text is one value
ParseJsonTokens(toks) ==
  LET r == ParseValue(toks, 1) IN
  IF r.ok /\ SkipWhiteSpace(toks, r.next) > Len(toks) THEN r ELSE ParseFail

\* C12: for every name made of ASCII letters, digits and hyphens
\* transformToJS returns, and the identifier it derives is the name without
\* each hyphen that stands right before a letter, that letter upper-cased,
\* every other character kept in order; 'single', 'account-specs' and
\* 'trading-instruments' give 'single', 'accountSpecs' and
\* 'tradingInstruments'.
C12_CamelCase ==
  /\ last.op = "transformToJS" => last.outcome.kind \in {"pending", "return"}
  /\ Rendered =>
       /\ DataIdentifier(Text)
            = WithoutHyphens(last.config.name, HyphensBeforeLetter(last.config.name))
       /\ CamelCaseExamples

\* no hyphen, no digit in front, not empty
IsBareIdentifier(id) ==
  id # <<>> /\ ~IsDigit(id[1]) /\ \A i \in 1..Len(id) : id[i] # "-"

\* C13: the identifier transformToJS puts after `export const` is a bare
\* identifier (no hyphen, no digit in front) for every name made of ASCII
\* letters, digits and hyphens.
C13_BareIdentifier ==
  Rendered => IsBareIdentifier(DataIdentifier(Text))

\* C14: the text has exactly two `export const` declarations, of different
\* names: the derived identifier and `metadata`, whose record has the
\* timestamp of the call, the endpoint name as source, generator
\* 'api-to-cdn-sync' and version '1.0.0'.
C14_TwoBindings ==
  Rendered =>
    /\ Cardinality(ExportPositions(Text)) = 2
    /\ {BindingName(Text, i) : i \in ExportPositions(Text)}
         = {ToCamelCase(last.config.name), MetadataName}
    /\ ToCamelCase(last.config.name) # MetadataName
    /\ ContainsSeq(Text, <<"  timestamp: \"", last.timestamp, "\",">>)
    /\ ContainsSeq(Text, <<"  source: \"">> \o last.config.name \o <<"\",">>)
    /\ ContainsSeq(Text, <<"  generator: \"", "api-to-cdn-sync", "\",">>)
    /\ ContainsSeq(Text, <<"  version: \"", "1.0.0", "\"">>)

\* C15: for every JSON value, null and the empty array and object included,
\* transformToJS returns, and parsing the literal between
\* `export const <identifier> = ` and its `;` gives the value back, arrays
\* and object members in their order.
C15_RoundTrip ==
  /\ last.op = "transformToJS" => last.outcome.kind \in {"pending", "return"}
  /\ Rendered =>
       /\ ParseJsonTokens(DataLiteral(Text)).ok
       /\ ParseJsonTokens(DataLiteral(Text)).value = last.data

\* the account specifications went through, and so did null
C15_Witness ==
  /\ Rendered
  /\ last.data \in {Null, Obj(<<Member("data", Arr(<<AccountSpec("Standard"),
                                                     AccountSpec("Swap-Free")>>))>>)}
  /\ ParseJsonTokens(DataLiteral(Text)).ok

SaveCalled == last.op = "saveToFile"

Saved == SaveCalled /\ last.outcome.kind = "return"

\* fs.readFileSync(p, 'utf8') on the files as they are now
ReadBack(p) == files[p]

\* C17: after a call of saveToFile that returned, whatever calls went
\* before it and whatever the file held, the file at the path exists and
\* reading it gives the content of this call, no more and no less.
C17_Overwrite ==
  Saved => /\ ExistsSync(files, last.outputPath)
           /\ ReadBack(last.outputPath) = last.content

\* a file that held another text has been saved again
C17_Witness ==
  /\ Saved
  /\ ExistsSync(last.filesBefore, last.outputPath)
  /\ last.filesBefore[last.outputPath] # last.content

\* all files but the one at p are as they were before the call
OtherFilesUnchanged(p) ==
  /\ DOMAIN files = DOMAIN last.filesBefore \cup {p}
  /\ \A q \in DOMAIN last.filesBefore \ {p} : files[q] = last.filesBefore[q]

\* C18: a call of saveToFile whose directory is missing (no file standing in
\* the place of a directory of the path) returns, having made the directory
\* and every missing directory above it and written the file; a call whose
\* directory exists (the path not being a directory itself) returns, makes
\* no directory, writes the file and leaves every other file as it was.
C18_ParentDirectories ==
  SaveCalled =>
    LET p == last.outputPath
        dir == Dirname(p)
    IN /\ (/\ ~PathExists(last.filesBefore, last.dirsBefore, dir)
           /\ \A a \in Ancestors(dir) : ~ExistsSync(last.filesBefore, a))
          => /\ Saved
             /\ dirs = last.dirsBefore \cup Ancestors(dir)
             /\ ReadBack(p) = last.content
             /\ OtherFilesUnchanged(p)
       /\ (dir \in last.dirsBefore /\ p \notin last.dirsBefore)
          => /\ Saved
             /\ dirs = last.dirsBefore
             /\ ReadBack(p) = last.content
             /\ OtherFilesUnchanged(p)

\* a file has been saved three directories down, none of which existed
C18_Witness ==
  /\ Saved
  /\ last.dirsBefore = {"."}
  /\ {"output", "output/archive", "output/archive/2025"} \subseteq dirs
  /\ ExistsSync(files, "output/archive/2025/account-specs.js")

AccessTested == last.op = "testCDNAccess"

\* C19: testCDNAccess always returns; when the GET came back with HTTP 200
\* the value has success = true, the size of the body in bytes and the
\* content type of the response; on any other status and on any failure of
\* the request it has success = false and a message or an error.
C19_AccessResult ==
  AccessTested =>
    /\ last.outcome.kind = "return"
    /\ LET response == netCalls[1].response
           v == last.outcome.value
       IN IF response.settled = "resolve" /\ response.status = 200
          THEN /\ v.success
               /\ v.size = JNum(Utf8Length(response.body))
               /\ v.contentType = response.contentType
          ELSE /\ ~v.success
               /\ "message" \in DOMAIN v \/ "error" \in DOMAIN v

IsGet(call) == call.request.method = "GET"

IsAcceptedPut(call) ==
  /\ call.request.method = "PUT"
  /\ call.response.settled = "resolve"
  /\ SuccessField(call.response.data)

\* the requests of the access checks among the requests made
Gets == SelectSeq(netCalls, IsGet)

IsSuccess(result) == result.success

\* C20: deploySingleFile returns (or throws) exactly what deployToCDN left,
\* with success = true untouched when the access check fails, and makes the
\* access check, one GET on the URL of the record after the accepted PUT,
\* exactly when deployToCDN returned a success; deployOutputFiles returns
\* exactly what deployMultipleFiles returned, counts included, and makes the
\* access checks after all uploads, one for each successful record, in order,
\* and none for a failed one.
C20_Advisory ==
  /\ last.op = "deploySingleFile" =>
       LET succeeded == last.record.kind = "return" /\ last.record.value.success IN
       /\ last.outcome = IF last.loaded.kind = "throw" THEN last.loaded ELSE last.record
       /\ (last.access # NoAccess) <=> succeeded
       /\ Len(Gets) = IF succeeded THEN 1 ELSE 0
       /\ succeeded =>
            /\ Len(netCalls) = 2
            /\ IsAcceptedPut(netCalls[1])
            /\ netCalls[2].request = AccessRequest(last.record.value.url)
            /\ last.outcome.value.success
  /\ last.op = "deployOutputFiles" =>
       IF last.batchResult = NoAccess
       THEN Len(Gets) = 0 /\ last.accesses = <<>>
       ELSE LET results == last.batchResult.value.results
                successes == SelectSeq(results, IsSuccess)
                puts == Len(netCalls) - Len(Gets)
            IN /\ last.outcome = last.batchResult
               /\ last.outcome.value.total = Len(last.files)
               /\ last.outcome.value.successful = Len(successes)
               /\ last.outcome.value.failed = Len(results) - Len(successes)
               /\ Len(last.accesses) = Len(successes)
               /\ Len(Gets) = Len(successes)
               /\ \A i \in 1..Len(successes) :
                    /\ last.accesses[i].url = successes[i].url
                    /\ netCalls[puts + i].request = AccessRequest(successes[i].url)
               /\ \A i \in 1..puts : ~IsGet(netCalls[i])
               /\ Cardinality({i \in 1..puts : IsAcceptedPut(netCalls[i])}) = Len(successes)

\* a deployment whose access check failed has been returned as a success
C20_Witness ==
  /\ last.op = "deploySingleFile"
  /\ last.access # NoAccess
  /\ ~last.access.value.success
  /\ last.outcome.kind = "return"
  /\ last.outcome.value.success

(* --------------------------- reading a run ----------------------------- *)
\* main() was called
Started == run.pc # "idle"

\* the process of main() has ended
Exited == Started /\ run.pc = "exited"

\* the stage was begun
Begun(stage) == Started /\ \E i \in DOMAIN run.stages : run.stages[i] = stage

\* the stage ended by throwing
StageFailed(stage) == Exited /\ run.failed = stage

\* the stage begun last
LastStage == run.stages[Len(run.stages)]

\* fetchApiData threw: no token, or the GET was rejected
FetchRejected ==
  /\ Begun("fetch")
  /\ last = NoCall
  /\ \/ Falsy(env.API_AUTH_TOKEN)
     \/ Len(netCalls) = 1 /\ netCalls[1].response.settled = "reject"

\* the deploy command was started
PublishBegun == last # NoCall

\* the working directory is as it was when main() was called
FileSystemUntouched == files = run.filesBefore /\ dirs = run.dirsBefore

\* C21: when fetch, transform or persist fails in a run, the process ends
\* with a non-zero exit code, no later stage is executed (the failed stage
\* is the last one begun and the deploy command is never started), and a
\* failure in fetch (or transform) leaves the files and directories as they were
C21_FailFast ==
  /\ FetchRejected => StageFailed("fetch")
  /\ \A stage \in {"fetch", "transform", "persist"} :
       StageFailed(stage) =>
         /\ run.exit # 0
         /\ LastStage = stage
         /\ ~PublishBegun
         /\ stage \in {"fetch", "transform"} => FileSystemUntouched

\* a run whose fetch was answered 401 has ended
C21_Witness ==
  /\ StageFailed("fetch")
  /\ Len(netCalls) = 1
  /\ netCalls[1].response.settled = "reject"
  /\ netCalls[1].response.hasResponse
  /\ netCalls[1].response.status = 401
  /\ run.exit = 1

\* the run wrote the output file of endpoint e
Processed(e) ==
  LET p == PathJoinOutput(e.outputFile) IN
  /\ ExistsSync(files, p)
  /\ ExistsSync(run.filesBefore, p) => files[p] # run.filesBefore[p]

\* C22: a run of the orchestrator that ends successfully (exit code 0) has
\* processed every endpoint of the configured list
C22_EveryEndpoint ==
  (Exited /\ run.exit = 0) =>
    \A i \in DOMAIN run.config.endpoints : Processed(run.config.endpoints[i])

(* ---------------------- reading the deploy command ---------------------- *)
\* the deploy command has exited
DeployExited == last.op = "deploy"

\* deployOutputFiles threw
DeployRaised == last.call.outcome.kind = "throw"

\* the batch ran and the record of one of its files is a failure
UploadFailed ==
  /\ last.call.batchResult # NoAccess
  /\ \E i \in DOMAIN last.call.batchResult.value.results :
       ~last.call.batchResult.value.results[i].success

\* C23: the deploy command exits with 0 exactly when no error was raised and
\* no upload of the batch failed, which includes an output directory without
\* .js files; it exits with a non-zero code when an upload failed, when the
\* environment is unknown and when the output directory is missing
C23_ExitCode ==
  DeployExited =>
    /\ last.exit = 0 <=> (~DeployRaised /\ ~UploadFailed)
    /\ (~DeployRaised /\ Len(last.call.files) = 0) => last.exit = 0
    /\ UploadFailed => last.exit # 0
    /\ last.call.loaded.kind = "throw" => last.exit # 0
    /\ ~PathExists(files, dirs, "output") => last.exit # 0

\* the command has exited after a batch of two files of which one was
\* uploaded and one was not
C23_Witness ==
  /\ DeployExited
  /\ last.call.batchResult # NoAccess
  /\ last.call.batchResult.value.successful = 1
  /\ last.call.batchResult.value.failed = 1
  /\ last.exit = 1

\* sequence s is the beginning of sequence t
IsPrefix(s, t) == Len(s) <= Len(t) /\ \A i \in DOMAIN s : s[i] = t[i]

\* fetchApiData returned the value the HTTP layer resolved with, and the run
\* holds it
FetchCompleted ==
  /\ run.apiData # Undefined
  /\ PublishBegun
     \/ /\ Len(netCalls) = 1
        /\ netCalls[1].response.settled = "resolve"
        /\ run.apiData = netCalls[1].response.data

\* the run holds the whole text of the module for the data fetched
TransformCompleted ==
  /\ Len(run.jsContent) > 2
  /\ run.jsContent
       = TransformToJS(JsonOf(run.apiData), [name |-> run.endpoint.name], run.jsContent[2])

\* the output file holds the whole text of the module
PersistCompleted ==
  /\ ExistsSync(files, run.outputPath)
  /\ files[run.outputPath] = Flatten(run.jsContent)

\* C24: in a run the stages begin in the order fetch, transform, persist,
\* publish, each one after the stage before it has completed successfully:
\* transformToJS is called with the value fetchApiData returned, saveToFile
\* with the whole module text, and the deploy command starts after main()
\* has exited with 0 and uploads only whole files of the output directory
C24_StageOrder ==
  Started =>
    /\ IsPrefix(run.stages, <<"fetch", "transform", "persist">>)
    /\ Begun("transform") => FetchCompleted
    /\ Begun("persist") => FetchCompleted /\ TransformCompleted
    /\ PublishBegun =>
         /\ run.exit = 0
         /\ run.stages = <<"fetch", "transform", "persist">>
         /\ FetchCompleted /\ TransformCompleted /\ PersistCompleted
         /\ \A i \in DOMAIN netCalls :
              netCalls[i].request.method = "PUT" =>
                \E q \in DOMAIN files : netCalls[i].request.body = files[q]

\* the deploy command has uploaded the module this run generated
C24_Witness ==
  /\ PublishBegun
  /\ \E i \in DOMAIN netCalls :
       /\ IsAcceptedPut(netCalls[i])
       /\ netCalls[i].request.body = Flatten(run.jsContent)

\* the tokens of a text that follow the token `before`
TokensAfter(text, before) == {text[i] : i \in {j \in 2..Len(text) : text[j - 1] = before}}

\* C25: transformToJS reads the clock once per call: in every module it
\* returns, the timestamp of the `// Generated on` comment is the timestamp
\* of the metadata record, and it is the first reading of the clock even
\* when the clock moves on during the call
C25_OneTimestamp ==
  (last.op = "transformToJS" /\ last.outcome.kind = "return") =>
    LET text == last.outcome.value IN
    /\ TokensAfter(text, "// Generated on ") = {last.clock[1]}
    /\ TokensAfter(text, "  timestamp: \"") = TokensAfter(text, "// Generated on ")

\* transformToJS has returned while the clock moved on during the call
C25_Witness ==
  /\ last.op = "transformToJS"
  /\ last.outcome.kind = "return"
  /\ last.clock[1] # last.clock[2]
  /\ TokensAfter(last.outcome.value, "  timestamp: \"") = {last.clock[1]}

\* C26: whoever reads the destination path, at any moment of a call of
\* saveToFile and after a crash during it, finds the whole text the file
\* held before the call or the whole new text
C26_NoPartialWrite ==
  (last.op = "saveToFile" /\ ExistsSync(files, last.outputPath)) =>
    \/ files[last.outputPath] = last.content
    \/ /\ ExistsSync(last.filesBefore, last.outputPath)
       /\ files[last.outputPath] = last.filesBefore[last.outputPath]

(* --------------------------- reading the store -------------------------- *)
\* the value the remote store holds at an address after the first n
\* exchanges: the body of the accepted PUT made last to that address
StoreAt(url, n) ==
  LET puts == {i \in 1..n : IsAcceptedPut(netCalls[i]) /\ netCalls[i].request.url = url} IN
  IF puts = {} THEN Undefined
  ELSE Str(netCalls[CHOOSE i \in puts : \A j \in puts : j <= i].request.body)

\* the addresses written to
Addresses == {netCalls[i].request.url : i \in DOMAIN netCalls}

\* the address of a key in a namespace of an account
KvAddress(accountId, namespaceId, key) ==
  "https://api.cloudflare.com/client/v4/accounts/" \o accountId
  \o "/storage/kv/namespaces/" \o namespaceId \o "/values/" \o key

\* the preconditions of the call in `last`: the four fields of the target
\* (and zoneId) are set, and the file existed
PublishPreconditions ==
  /\ \A f \in ConfigFields : ~Falsy(last.config[f])
  /\ last.outcome.kind = "return" \/ HasPart(last.outcome.message, "CDN deployment failed: ")

\* C27: a call of deployToCDN whose preconditions hold makes one PUT,
\* whatever the answer, with the whole content of the file as its body, to
\* the address of (accountId, namespaceId, key); when the PUT is accepted the
\* store holds that content at the address whatever was put there before,
\* and an accepted PUT that repeats the accepted PUT before it leaves the
\* store as it was
C27_SinglePut ==
  (last.op = "deployToCDN" /\ PublishPreconditions) =>
    LET n == Len(netCalls)
        call == netCalls[n]
    IN /\ n = last.callsBefore + 1
       /\ call.request.method = "PUT"
       /\ call.request.body = last.content
       /\ call.request.url = KvAddress(last.config.accountId.s, last.config.namespaceId.s,
                                       last.fileName)
       /\ IsAcceptedPut(call) => StoreAt(call.request.url, n) = Str(last.content)
       /\ (n > 1 /\ IsAcceptedPut(call) /\ IsAcceptedPut(netCalls[n - 1])
             /\ netCalls[n - 1].request = call.request)
            => \A url \in Addresses : StoreAt(url, n) = StoreAt(url, n - 1)

\* two accepted publishes of one key with different contents: the store
\* holds the second
C27_Witness ==
  /\ last.op = "deployToCDN"
  /\ Len(netCalls) = 2
  /\ IsAcceptedPut(netCalls[1]) /\ IsAcceptedPut(netCalls[2])
  /\ netCalls[1].request.url = netCalls[2].request.url
  /\ netCalls[1].request.body # netCalls[2].request.body
  /\ StoreAt(netCalls[2].request.url, 2) = Str(last.content)

\* C28: fetchApiData hands at most one request, a GET, to the HTTP layer;
\* when that request is rejected (401, another status, no response, a
\* timeout) the call throws and no second request is made
C28_NoRetry ==
  Fetched =>
    /\ Len(netCalls) <= 1
    /\ \A i \in DOMAIN netCalls : IsGet(netCalls[i])
    /\ (Answered /\ Answer.settled = "reject") => Thrown(last.outcome)
    /\ (Thrown(last.outcome) /\ ~Falsy(last.token)) =>
         (Answered /\ Answer.settled = "reject")

\* a fetch that was answered 503 has thrown after its one request
C28_Witness ==
  /\ Fetched
  /\ Answered
  /\ Answer.settled = "reject"
  /\ Answer.hasResponse
  /\ Answer.status = 503
  /\ Thrown(last.outcome)

\* how many results of the list are marked success = flag
CountResults(results, flag) ==
  Cardinality({i \in DOMAIN results : results[i].success = flag})

\* C29: the aggregate deployMultipleFiles returns has total = the number of
\* input records, successful + failed = total, one result per record in
\* input order, as many results marked successful (failed) as were counted
\* successful (failed), and success = true exactly when failed = 0
C29_BatchAccounting ==
  (last.op = "deployMultipleFiles" /\ last.outcome.kind = "return") =>
    LET v == last.outcome.value IN
    /\ v.total = Len(last.files)
    /\ v.successful + v.failed = v.total
    /\ Len(v.results) = v.total
    /\ \A i \in DOMAIN v.results : v.results[i].fileName = last.files[i].fileName
    /\ v.successful = CountResults(v.results, TRUE)
    /\ v.failed = CountResults(v.results, FALSE)
    /\ v.success <=> v.failed = 0

\* a batch of two records has returned, one deployed and one not
C29_Witness ==
  /\ last.op = "deployMultipleFiles"
  /\ last.outcome.kind = "return"
  /\ last.outcome.value.total = 2
  /\ last.outcome.value.successful = 1
  /\ last.outcome.value.failed = 1
  /\ ~last.outcome.value.success

(* ------------------------- reading the console -------------------------- *)
\* a line or message, as the pieces of its template literal, has the secret
\* as one of its pieces, bare or as the value of the Authorization header
Mentions(line, secret) ==
  \E i \in DOMAIN line : line[i] = secret \/ line[i] = "Bearer " \o secret

\* the lines written and the message of the error thrown
Observed(logs, outcome) ==
  {logs[i] : i \in DOMAIN logs}
  \cup (IF outcome.kind = "throw" THEN {outcome.message} ELSE {})

\* the remote answered with the secret in the error field, or in the errors
\* list, of its response
Echoed(secret) ==
  \E i \in DOMAIN netCalls :
    LET response == netCalls[i].response IN
    /\ response.settled = "reject" \/ netCalls[i].request.method = "PUT"
    /\ "data" \in DOMAIN response
    /\ \/ ErrorField(response.data) = Str(secret)
       \/ /\ ErrorsField(response.data) # Undefined
          /\ \E k \in DOMAIN ErrorsField(response.data).items :
               ErrorsField(response.data).items[k].message = secret

\* a credential that is set
IsSecret(v) == v.t = "str" /\ v.s # ""

\* C30: no line written on the console and no message of an error thrown
\* by fetchApiData, by deployToCDN or by main() has the API token or the
\* Cloudflare token in it, unless the remote sent the token back in the
\* error field of its response
C30_NoCredentialInOutput ==
  /\ (Fetched /\ IsSecret(last.token) /\ ~Echoed(last.token.s)) =>
       \A line \in Observed(last.logs, last.outcome) : ~Mentions(line, last.token.s)
  /\ (Deployed /\ IsSecret(last.config.apiToken) /\ ~Echoed(last.config.apiToken.s)) =>
       \A line \in Observed(last.logs, last.outcome) :
         ~Mentions(line, last.config.apiToken.s)
  /\ (Started /\ IsSecret(env.API_AUTH_TOKEN) /\ ~Echoed(env.API_AUTH_TOKEN.s)) =>
       \A i \in DOMAIN run.logs : ~Mentions(run.logs[i], env.API_AUTH_TOKEN.s)

\* a run of main() with the token set has ended on a 401 whose body does not
\* repeat the token, and has written the error on the console
C30_Witness ==
  /\ StageFailed("fetch")
  /\ env.API_AUTH_TOKEN = Str("test-token-123")
  /\ Len(netCalls) = 1
  /\ netCalls[1].request.authorization = "Bearer test-token-123"
  /\ netCalls[1].response.settled = "reject"
  /\ netCalls[1].response.hasResponse
  /\ netCalls[1].response.status = 401
  /\ ~Echoed("test-token-123")
  /\ \E i \in DOMAIN run.logs : Mentions(run.logs[i], "Authentication failed: ")

====
